---- MODULE Spec2Model ----
(***************************************************************************)
(* A model of SmartVoice-Gen's video editor (src/components/VideoEditor.tsx *)
(* and the parts of src/App.tsx that drive it).                             *)
(*                                                                          *)
(* Spec      the playback/capture driver: the preview effect, the capture   *)
(*           effect with its asynchronous acquisition, the encoder's stop   *)
(*           event, the audio source's ended event and its 500 ms timer,    *)
(*           and the App's export / logout / login handlers.                *)
(* FairSpec  Spec with weak fairness on the steps the browser schedules.    *)
(* ImageSpec the background-image loading effect; ImageFairSpec adds weak    *)
(*           fairness on the browser's image and promise callbacks.          *)
(* WrapSpec  the layout engine getWrappedLines as a pure function.          *)
(*                                                                          *)
(* Time is counted in tenths of a second.                                   *)
(***************************************************************************)
EXTENDS Integers, Sequences, FiniteSets, TLC

VARIABLES
    mounted,      \* VideoEditor is mounted (App.currentUser is non-null)
    crashed,      \* an effect threw an uncaught error: React unmounted the root
    isRecording,  \* App state videoState.isRecordingVideo
    audioBuffer,  \* 0: videoState.audioBuffer is null; d > 0: duration / playbackSpeed
    committed,    \* the isRecording value the mounted effects last ran with
    previewRaf,   \* the preview loop has a repaint callback scheduled
    nRuns,        \* capture effect instances created so far
    run,          \* run[r]: the closure state of capture effect instance r
    images,       \* the images prop: per image its id and whether its data decodes
    loadState,    \* per Image object of the running effect: "pending", "loaded", "failed"
    thenDone,     \* the running effect's Promise.all(...).then callback has run
    loadedImages, \* the state loadedImages: the ids of the decoded images it holds
    nUploaded,    \* images uploaded so far
    wIn,          \* getWrappedLines' arguments
    wOut,         \* getWrappedLines' result, once computed
    wPrev,        \* the arguments and result of the frame before a box-width change
    wPc,          \* "input" before the call, "done" after, "narrowed" after a re-layout
    wPasses,      \* passes of the font-size loop taken by the call in progress
    tText,        \* cleanTranscript, as the timing map's useMemo sees it
    tMap,         \* the memoized generateTextTimingMap(cleanTranscript), once computed
    dIn,          \* drawTextBlock's arguments and the style and box it reads
    dOut,         \* what drawTextBlock computed and drew, once it has run
    dPc,          \* "input" before the first frame, "drawn" after a frame
    pBuffer,      \* the preview effect's audioBuffer.duration (0: null) and playbackSpeed
    pNow,         \* Date.now(), in tenths of a second
    pStart,       \* the preview effect's startTime
    pFrame,       \* the arguments of the preview loop's last drawFrame call
    sImages,      \* loadedImages.length, as drawFrame sees it
    sSeed,        \* the local seed of the last seededRandom call when it returned (0: no call yet)
    sLast,        \* the slot, image and variant of the last slideshow frame
    sKept,        \* the slot, image and variant of some earlier slideshow frame
    sAgain,       \* a frame of another slot was composed after the kept one
    uCount,       \* videoState.images.length
    uReads,       \* per upload whose file reads are in flight: the number of its files
    eText,        \* videoState.text: its length, and whether it is blank (trims to "")
    eSent,        \* isTranslating: the text handed to translateText (<<>>: no call in flight)
    rPc,          \* where a call of retryOperation stands
    rMax,         \* its maxRetries
    rBase,        \* its baseDelay, in milliseconds
    rI,           \* its loop variable i
    rErrors,      \* the errors its attempts were rejected with, in order
    rWaits,       \* the delays of the timers it has set, in order
    rCalls,       \* how many times it has invoked the operation
    rOut          \* what it returned or threw

driverVars == <<mounted, crashed, isRecording, audioBuffer, committed, previewRaf, nRuns, run>>
imageVars == <<images, loadState, thenDone, loadedImages, nUploaded>>
wrapVars == <<wIn, wOut, wPrev, wPc, wPasses>>
textVars == <<tText, tMap, dIn, dOut, dPc>>
clockVars == <<pBuffer, pNow, pStart, pFrame>>
slideVars == <<sImages, sSeed, sLast, sKept, sAgain>>
uploadVars == <<uCount, uReads>>
editVars == <<eText, eSent>>
retryVars == <<rPc, rMax, rBase, rI, rErrors, rWaits, rCalls, rOut>>
vars ==
    <<driverVars, imageVars, wrapVars, textVars, clockVars, slideVars, uploadVars,
      editVars, retryVars>>

(***************************************************************************)
(* Bounds of the model.                                                     *)
(***************************************************************************)
MaxRuns == 2
AudioDur == 1

Runs == 1..MaxRuns

(***************************************************************************)
(* The capture driver.                                                      *)
(***************************************************************************)
\* elapsed < actualDuration + 0.5, in tenths of a second
SafetyMargin == 5

\* the largest elapsed time the model lets a run's audio clock reach: 0.6 s past
\* the end of the audio
MaxElapsed(d) == d + SafetyMargin + 1

NoRun ==
    [ pc |-> "unused",      \* "awaiting": at await audioCtx.resume(); "running": startRecording
                            \* returned; "caught": its catch block ran; "threw": the
                            \* effect body threw before startRecording was called
      eff |-> FALSE,        \* the effect instance is live: its cleanup has not run
      ctx |-> "none",       \* audioCtx.state
      rec |-> "null",       \* mediaRecorder: null, or its state
      started |-> FALSE,    \* mediaRecorder.start() returned
      stopEvt |-> FALSE,    \* the recorder's stop event is queued
      failed |-> FALSE,     \* the encoder erred or the capture path threw after the start
      created |-> 0,        \* calls of onVideoCreated
      raf |-> FALSE,        \* the capture loop has a repaint callback scheduled
      composed |-> FALSE,   \* the capture loop composed a frame
      src |-> "null",       \* source: null, created, playing, ended, stopped
      onended |-> FALSE,    \* source.onended is set
      timer |-> FALSE,      \* the 500 ms timer is armed
      elapsed |-> 0,        \* audioCtx.currentTime - startTime
      dur |-> 0,            \* actualDuration
      seen |-> "below",     \* the largest elapsed time a tick observed: below the
                            \* safety bound, at it ("bound"), or 0.6 s past the end ("past")
      lateTick |-> FALSE ]  \* a tick ran after a tick that observed 0.6 s past the end

\* a loop that stops 0.2 s too late
KeepsTickingLate(elapsed, d) == elapsed < d + SafetyMargin + 2

\* renderLoop's test for requesting the next frame
KeepsTicking(elapsed, d) == elapsed < d + SafetyMargin

\* mediaRecorder.stop() behind its guard state !== 'inactive'
StopRecorder(rr) ==
    IF rr.rec = "recording"
    THEN [rr EXCEPT !.rec = "inactive", !.stopEvt = TRUE]
    ELSE rr

\* what the browser does to startRecording: every step succeeds, or one throws
AcqOutcomes == {"ok", "failEarly", "failRecStart", "failSrcStart", "failDraw"}

\* startRecording from after the await to its end
Acquire(rr, outcome) ==
    LET caught == [rr EXCEPT !.pc = "caught"] IN
    CASE outcome = "failEarly" ->      \* a step before mediaRecorder.start() throws
           caught
      [] outcome = "failRecStart" ->   \* mediaRecorder.start() throws
           [caught EXCEPT !.src = "created", !.rec = "inactive"]
      [] outcome = "failSrcStart" ->   \* source.start() throws
           [caught EXCEPT !.src = "created", !.rec = "recording", !.started = TRUE,
                          !.failed = TRUE]
      [] outcome = "failDraw" ->       \* the first renderLoop() throws in drawFrame
           [caught EXCEPT !.src = "playing", !.rec = "recording", !.started = TRUE,
                          !.failed = TRUE]
      [] OTHER ->
           [rr EXCEPT !.pc = "running", !.src = "playing", !.rec = "recording",
                      !.started = TRUE, !.composed = TRUE,
                      !.raf = KeepsTicking(0, rr.dur), !.onended = TRUE]

\* no callback of the closure can run any more: the effect is torn down, nothing is
\* scheduled or queued, and no recorder is left recording
Dead(rr) ==
    /\ ~rr.eff
    /\ rr.pc \in {"running", "caught"}
    /\ ~rr.raf /\ ~rr.stopEvt /\ ~rr.timer
    /\ rr.rec # "recording"
    /\ ~(rr.src = "stopped" /\ rr.onended)

\* a dead closure is garbage: once the state in which it died has been seen, its
\* record is dropped
Gone == [NoRun EXCEPT !.pc = "gone"]

Reap(rr) == IF Dead(rr) THEN Gone ELSE rr

\* the closures as the next step finds them
Live == [r \in Runs |-> Reap(run[r])]

\* the capture effect's cleanup; no callback that is left reads the clock of the
\* closed context
Teardown(rr) ==
    LET stopped == StopRecorder(rr) IN
    [stopped EXCEPT !.eff = FALSE,
                    !.raf = FALSE,
                    !.src = IF rr.src = "playing" THEN "stopped" ELSE rr.src,
                    !.ctx = "closed",
                    !.elapsed = 0]

\* the cleanup of the live capture effect instance, if there is one
Cleanups == [r \in Runs |-> IF Live[r].eff THEN Teardown(Live[r]) ELSE Live[r]]

\* the capture effect's body up to the await, for a new instance
NewRun(ctx0, outcome) ==
    LET fresh == [NoRun EXCEPT !.eff = TRUE, !.ctx = ctx0, !.dur = audioBuffer] IN
    IF ctx0 = "suspended"
    THEN [fresh EXCEPT !.pc = "awaiting"]
    ELSE Acquire(fresh, outcome)

\* what new AudioContext() gives: a context in one of two states, or an exception
CtxOutcomes == {"suspended", "running", "throws"}

\* both effects run with the current isRecording, after every cleanup
RunEffects(ctx0, outcome) ==
    IF isRecording /\ audioBuffer # 0
    THEN /\ nRuns < MaxRuns
         /\ nRuns' = nRuns + 1
         /\ previewRaf' = FALSE
         /\ IF ctx0 = "throws"
            THEN /\ outcome = "ok"
                 /\ run' = [Cleanups EXCEPT ![nRuns + 1] = [NoRun EXCEPT !.pc = "threw"]]
                 /\ mounted' = FALSE
                 /\ crashed' = TRUE
                 /\ committed' = "none"
                 /\ UNCHANGED isRecording
            ELSE LET rr == NewRun(ctx0, outcome) IN
                 /\ ctx0 = "suspended" => outcome = "ok"
                 /\ run' = [Cleanups EXCEPT ![nRuns + 1] = rr]
                 /\ mounted' = TRUE
                 /\ committed' = "capture"
                 /\ isRecording' = (rr.pc # "caught")
                 /\ UNCHANGED crashed
    ELSE /\ ctx0 = "running" /\ outcome = "ok"
         /\ run' = Cleanups
         /\ previewRaf' = ~isRecording
         /\ mounted' = TRUE
         /\ committed' = IF isRecording THEN "capture" ELSE "preview"
         /\ UNCHANGED <<nRuns, crashed, isRecording>>

\* the other parts of the editor take no step
Elsewhere ==
    UNCHANGED <<imageVars, wrapVars, textVars, clockVars, slideVars, uploadVars,
                editVars, retryVars>>

\* React commits a changed isRecording: cleanups, then effects
Commit ==
    /\ mounted
    /\ committed # (IF isRecording THEN "capture" ELSE "preview")
    /\ \E ctx0 \in CtxOutcomes, outcome \in AcqOutcomes : RunEffects(ctx0, outcome)
    /\ UNCHANGED audioBuffer
    /\ Elsewhere

\* App.handleLogin: the editor mounts and its effects run
Login ==
    /\ ~mounted /\ ~crashed
    /\ \E ctx0 \in CtxOutcomes, outcome \in AcqOutcomes : RunEffects(ctx0, outcome)
    /\ UNCHANGED audioBuffer
    /\ Elsewhere

\* App.handleLogout: the editor unmounts and its cleanups run
Logout ==
    /\ mounted
    /\ mounted' = FALSE
    /\ committed' = "none"
    /\ previewRaf' = FALSE
    /\ run' = Cleanups
    /\ UNCHANGED <<crashed, isRecording, audioBuffer, nRuns>>
    /\ Elsewhere

\* App.handleGenerateAudio stores a decoded buffer
GenerateAudio ==
    /\ mounted
    /\ audioBuffer' = AudioDur
    /\ run' = Live
    /\ UNCHANGED <<mounted, crashed, isRecording, committed, previewRaf, nRuns>>
    /\ Elsewhere

\* App.startVideoCreation, behind the Export button's disabled flag as last rendered
StartExport ==
    /\ mounted
    /\ audioBuffer # 0
    /\ ~isRecording /\ committed = "preview"
    /\ nRuns < MaxRuns
    /\ isRecording' = TRUE
    /\ run' = Live
    /\ UNCHANGED <<mounted, crashed, audioBuffer, committed, previewRaf, nRuns>>
    /\ Elsewhere

\* the preview loop's tick: a frame, and the next repaint request
PreviewTick ==
    /\ previewRaf
    /\ previewRaf' = TRUE
    /\ run' = Live
    /\ UNCHANGED <<mounted, crashed, isRecording, audioBuffer, committed, nRuns>>
    /\ Elsewhere

\* the driver's variables that a callback of one run leaves alone
RunOnly == UNCHANGED <<mounted, crashed, audioBuffer, committed, previewRaf, nRuns>>

\* audioCtx.resume() settles and startRecording goes on
ResumeSettles(r) ==
    /\ run[r].pc = "awaiting"
    /\ \E outcome \in AcqOutcomes :
         LET woken == [run[r] EXCEPT !.ctx = IF @ = "suspended" THEN "running" ELSE @]
             rr == Acquire(woken, outcome) IN
         /\ run' = [Live EXCEPT ![r] = rr]
         /\ isRecording' = (isRecording /\ rr.pc # "caught")
    /\ RunOnly /\ Elsewhere

\* the audio clock of a running context advances, while the closure reads it
ClockAdvance(r) ==
    /\ run[r].ctx = "running"
    /\ run[r].raf \/ run[r].src = "playing"
    /\ run[r].elapsed < MaxElapsed(run[r].dur)
    /\ run' = [Live EXCEPT ![r].elapsed = @ + 1]
    /\ UNCHANGED isRecording
    /\ RunOnly /\ Elsewhere

\* the capture loop's tick
CaptureTick(r) ==
    /\ run[r].raf
    /\ LET rr == run[r]
           ticked == [rr EXCEPT !.composed = TRUE,
                                !.lateTick = @ \/ rr.seen = "past",
                                !.seen = IF rr.elapsed > rr.dur + SafetyMargin THEN "past"
                                         ELSE IF rr.elapsed = rr.dur + SafetyMargin
                                                 /\ @ = "below" THEN "bound"
                                         ELSE @]
       IN run' = [Live EXCEPT ![r] =
                     IF KeepsTicking(rr.elapsed, rr.dur)
                     THEN [ticked EXCEPT !.raf = TRUE]
                     ELSE StopRecorder([ticked EXCEPT !.raf = FALSE])]
    /\ UNCHANGED isRecording
    /\ RunOnly /\ Elsewhere

\* drawFrame throws inside a repaint callback: nothing catches it
TickThrows(r) ==
    /\ run[r].raf
    /\ run' = [Live EXCEPT ![r] = [run[r] EXCEPT !.raf = FALSE,
                                                  !.failed = @ \/ run[r].rec = "recording"]]
    /\ UNCHANGED isRecording
    /\ RunOnly /\ Elsewhere

\* the source's ended event: the buffer played through, or source.stop() was called
SourceEnded(r) ==
    /\ \/ run[r].src = "playing" /\ run[r].ctx = "running" /\ run[r].elapsed >= run[r].dur
       \/ run[r].src = "stopped"
    /\ run' = [Live EXCEPT ![r] = [run[r] EXCEPT !.src = "ended", !.timer = run[r].onended]]
    /\ UNCHANGED isRecording
    /\ RunOnly /\ Elsewhere

\* the timer armed by source.onended fires
TimerFires(r) ==
    /\ run[r].timer
    /\ run' = [Live EXCEPT ![r] = StopRecorder([run[r] EXCEPT !.timer = FALSE])]
    /\ UNCHANGED isRecording
    /\ RunOnly /\ Elsewhere

\* the encoder fails: the recorder goes inactive and fires error, then stop
EncoderError(r) ==
    /\ run[r].rec = "recording"
    /\ run' = [Live EXCEPT ![r] = [StopRecorder(run[r]) EXCEPT !.failed = TRUE]]
    /\ UNCHANGED isRecording
    /\ RunOnly /\ Elsewhere

\* mediaRecorder.onstop
StopEvent(r) ==
    /\ run[r].stopEvt
    /\ run' = [Live EXCEPT ![r] = [run[r] EXCEPT !.stopEvt = FALSE, !.created = @ + 1]]
    /\ isRecording' = FALSE
    /\ RunOnly /\ Elsewhere

DriverInit ==
    /\ mounted = FALSE
    /\ crashed = FALSE
    /\ isRecording = FALSE
    /\ audioBuffer = 0
    /\ committed = "none"
    /\ previewRaf = FALSE
    /\ nRuns = 0
    /\ run = [r \in Runs |-> NoRun]

ImageIdle ==
    /\ images = <<>>
    /\ loadState = <<>>
    /\ thenDone = FALSE
    /\ loadedImages = <<>>
    /\ nUploaded = 0

WrapIdle ==
    /\ wIn = <<>>
    /\ wOut = <<>>
    /\ wPrev = <<>>
    /\ wPc = "input"
    /\ wPasses = 0

TextIdle ==
    /\ tText = <<>>
    /\ tMap = <<>>
    /\ dIn = <<>>
    /\ dOut = <<>>
    /\ dPc = "input"

ClockIdle ==
    /\ pBuffer = [duration |-> 0, playbackSpeed |-> 1]
    /\ pNow = 0
    /\ pStart = 0
    /\ pFrame = <<>>

SlideIdle ==
    /\ sImages = 0
    /\ sSeed = 0
    /\ sLast = <<>>
    /\ sKept = <<>>
    /\ sAgain = FALSE

UploadIdle ==
    /\ uCount = 0
    /\ uReads = <<>>

EditIdle ==
    /\ eText = [length |-> 0, blank |-> TRUE]
    /\ eSent = <<>>

\* a JavaScript undefined
Undefined == [t |-> "undefined", v |-> <<>>]

RetryIdle ==
    /\ rPc = "idle"
    /\ rMax = 0
    /\ rBase = 0
    /\ rI = 0
    /\ rErrors = <<>>
    /\ rWaits = <<>>
    /\ rCalls = 0
    /\ rOut = Undefined

Init ==
    /\ DriverInit /\ ImageIdle /\ WrapIdle /\ TextIdle /\ ClockIdle /\ SlideIdle
    /\ UploadIdle /\ EditIdle /\ RetryIdle

Next ==
    \/ Login
    \/ Logout
    \/ GenerateAudio
    \/ StartExport
    \/ Commit
    \/ PreviewTick
    \/ \E r \in Runs : ResumeSettles(r)
    \/ \E r \in Runs : ClockAdvance(r)
    \/ \E r \in Runs : CaptureTick(r)
    \/ \E r \in Runs : TickThrows(r)
    \/ \E r \in Runs : SourceEnded(r)
    \/ \E r \in Runs : TimerFires(r)
    \/ \E r \in Runs : EncoderError(r)
    \/ \E r \in Runs : StopEvent(r)

Spec == Init /\ [][Next]_vars

\* the steps the browser and React schedule happen; the user's steps and the
\* failures need not
FairSpec ==
    /\ Spec
    /\ WF_vars(Commit)
    /\ \A r \in Runs :
         /\ WF_vars(ResumeSettles(r))
         /\ WF_vars(ClockAdvance(r))
         /\ WF_vars(CaptureTick(r))
         /\ WF_vars(SourceEnded(r))
         /\ WF_vars(TimerFires(r))
         /\ WF_vars(StopEvent(r))

(***************************************************************************)
(* Claims about the capture driver.                                         *)
(***************************************************************************)
\* the capture effect's cleanup has run for this instance
TornDown(rr) == rr.pc \in {"awaiting", "running", "caught"} /\ ~rr.eff

\* nothing of the instance is held: no repaint callback, no recording encoder, no
\* playing source, a closed context
Released(rr) ==
    /\ ~rr.raf
    /\ rr.rec # "recording"
    /\ rr.src # "playing"
    /\ rr.ctx = "closed"

\* an acquisition step failed before the encoder was started
AcqFailed(rr) == rr.pc \in {"caught", "threw"} /\ ~rr.started

\* calls of onVideoCreated made or queued by the recorder's stop event
Deliveries(rr) == rr.created + (IF rr.stopEvt THEN 1 ELSE 0)

\* C1: in every capture run in which the encoder was started, onVideoCreated is
\* invoked exactly once: never twice, and eventually once.
C1_ExactlyOnce ==
    \A r \in Runs :
        /\ [](run[r].created <= 1)
        /\ (run[r].started ~> (run[r].created = 1))

\* C2: once a capture tick has observed elapsed = duration + 0.6, the encoder is
\* stopped, no repaint request is pending and no further tick has run, and the
\* completion callback has been made or is queued exactly once.
C2_StopsOnce ==
    \A r \in Runs :
        run[r].seen = "past" =>
            /\ run[r].rec = "inactive"
            /\ ~run[r].raf
            /\ ~run[r].lateTick
            /\ Deliveries(run[r]) = 1

\* C2's case: a tick observed duration + 0.6 and the callback has run
C2_Witness ==
    \E r \in Runs : run[r].seen = "past" /\ run[r].created = 1 /\ ~run[r].stopEvt

\* C3: once the capture effect of a run has been torn down, its three resources
\* are released, and stay so.
C3_Released == \A r \in Runs : TornDown(run[r]) => Released(run[r])

\* C4: a failed acquisition composes no frame, resets isRecording through the
\* catch block and never calls onVideoCreated.
C4_AcquisitionFailure ==
    \A r \in Runs :
        AcqFailed(run[r]) =>
            /\ ~run[r].composed
            /\ run[r].created = 0
            /\ run[r].pc = "caught"

\* C5: a run whose encoder failed, or whose capture path threw after the encoder
\* was started, never calls onVideoCreated.
C5_NoPartialOutput == \A r \in Runs : run[r].failed => run[r].created = 0

\* C6: the preview loop and a capture loop never both have a repaint callback
\* scheduled.
C6_MutualExclusion == ~(previewRaf /\ \E r \in Runs : run[r].raf)

(***************************************************************************)
(* The background-image loading effect.                                     *)
(***************************************************************************)
\* images ever uploaded in a behaviour of the model
MaxUploads == 3

\* files picked in one upload
MaxPick == 2

\* handleImageUpload: remainingSlots = 20 - currentCount
ImageLimit == 20

\* what one file dialog can return: per file, whether its data decodes as an image
Picks == UNION { [1..n -> BOOLEAN] : n \in 1..MaxPick }

\* files.slice(0, remainingSlots)
Slice(files, n) == SubSeq(files, 1, IF n < Len(files) THEN n ELSE Len(files))

\* the ids of the images in imgs, in order
Ids(imgs) == [i \in 1..Len(imgs) |-> imgs[i].id]

RECURSIVE Decodable(_)
\* the ids of the images in imgs whose data decodes, in order
Decodable(imgs) ==
    IF imgs = <<>> THEN <<>>
    ELSE (IF Head(imgs).ok THEN <<Head(imgs).id>> ELSE <<>>) \o Decodable(Tail(imgs))

\* the effect on [images]: the running effect's cleanup clears its isMounted, so
\* its callbacks no longer count; an empty list resets loadedImages; any other
\* list creates one Image and one promise per entry
ImageEffect(imgs) ==
    /\ images' = imgs
    /\ loadState' = [i \in 1..Len(imgs) |-> "pending"]
    /\ thenDone' = FALSE
    /\ loadedImages' = IF imgs = <<>> THEN <<>> ELSE loadedImages

\* the driver and the layout engine take no step
ImageOnly ==
    UNCHANGED <<driverVars, wrapVars, textVars, clockVars, slideVars, uploadVars,
                editVars, retryVars>>

\* App.handleImageUpload with its file reads done at once (the upload section
\* below has them in flight), then the editor's effect on the new images prop
UploadImages ==
    /\ ImageLimit - Len(images) > 0
    /\ \E files \in Picks :
         LET selectedFiles == Slice(files, ImageLimit - Len(images))
             newImages == [i \in 1..Len(selectedFiles) |->
                              [id |-> nUploaded + i, ok |-> selectedFiles[i]]]
         IN /\ nUploaded + Len(selectedFiles) <= MaxUploads
            /\ nUploaded' = nUploaded + Len(selectedFiles)
            /\ ImageEffect(images \o newImages)
    /\ ImageOnly

\* the Clear button: images: [], then the editor's effect
ClearImages ==
    /\ images # <<>>
    /\ ImageEffect(<<>>)
    /\ UNCHANGED nUploaded
    /\ ImageOnly

\* img.onload: the image's promise is resolved
ImageLoads(i) ==
    /\ i \in 1..Len(images)
    /\ loadState[i] = "pending" /\ images[i].ok
    /\ loadState' = [loadState EXCEPT ![i] = "loaded"]
    /\ UNCHANGED <<images, thenDone, loadedImages, nUploaded>>
    /\ ImageOnly

\* the image's data does not decode: the error event has no handler, and the
\* image's promise stays pending
ImageFails(i) ==
    /\ i \in 1..Len(images)
    /\ loadState[i] = "pending" /\ ~images[i].ok
    /\ loadState' = [loadState EXCEPT ![i] = "failed"]
    /\ UNCHANGED <<images, thenDone, loadedImages, nUploaded>>
    /\ ImageOnly

\* Promise.all(...).then: every promise is resolved, and isMounted is still true
ThenRuns ==
    /\ images # <<>> /\ ~thenDone
    /\ \A i \in 1..Len(images) : loadState[i] = "loaded"
    /\ thenDone' = TRUE
    /\ loadedImages' = Ids(images)
    /\ UNCHANGED <<images, loadState, nUploaded>>
    /\ ImageOnly

ImageNext ==
    \/ UploadImages
    \/ ClearImages
    \/ \E i \in 1..MaxUploads : ImageLoads(i)
    \/ \E i \in 1..MaxUploads : ImageFails(i)
    \/ ThenRuns

ImageSpec == Init /\ [][ImageNext]_vars

\* the browser's steps happen; the user's need not
ImageFairSpec ==
    /\ ImageSpec
    /\ WF_vars(ThenRuns)
    /\ \A i \in 1..MaxUploads : WF_vars(ImageLoads(i)) /\ WF_vars(ImageFails(i))

(***************************************************************************)
(* Claims about the image loading effect.                                   *)
(***************************************************************************)
\* every image of the current list has either loaded or failed to decode
Settled == images # <<>> /\ \A i \in 1..Len(images) : loadState[i] # "pending"

\* C7: once every image of the list has loaded or failed to decode, the load step
\* completes and loadedImages comes to hold the decoded images of the list (none:
\* the placeholder), the failed ones skipped.
C7_DecodeFailureSkipped == Settled ~> (loadedImages = Decodable(images))

(***************************************************************************)
(* The layout engine: getWrappedLines.  A text is a sequence of one-        *)
(* character strings; widths and heights are in pixels.                     *)
(***************************************************************************)
\* the longest text laid out
MaxTextLen == 3

\* the largest base font size
MaxBaseFont == 12

\* the widest box, in pixels
MaxWidth == 28

\* the tallest box, in double lines of the largest base font
MaxRows == 2

\* const MIN_FONT_SIZE = 10
MIN_FONT_SIZE == 10

\* style.lineHeight || 1.2, in tenths
DefaultLineHeight == 12

Chars == {"a", "b", " ", "\n"}
Texts == UNION { [1..n -> Chars] : n \in 0..MaxTextLen }
Widths == 0..MaxWidth
Heights == { 2 * r * MaxBaseFont : r \in 0..MaxRows }
BaseFonts == (MIN_FONT_SIZE - 1)..MaxBaseFont

RECURSIVE Split(_, _)
\* String.prototype.split on a one-character separator
Split(s, sep) ==
    IF \A i \in 1..Len(s) : s[i] # sep THEN <<s>>
    ELSE LET i == CHOOSE j \in 1..Len(s) : s[j] = sep /\ \A k \in 1..(j - 1) : s[k] # sep
         IN <<SubSeq(s, 1, i - 1)>> \o Split(SubSeq(s, i + 1, Len(s)), sep)

\* the advance widths of the model's font, in tenths of an em
GlyphWidth(c) == IF c = "a" THEN 12 ELSE IF c = "b" THEN 13 ELSE 3

RECURSIVE Advance(_)
\* the advance width of a string, in tenths of an em
Advance(s) == IF s = <<>> THEN 0 ELSE GlyphWidth(Head(s)) + Advance(Tail(s))

\* ctx.measureText(s).width with ctx.font at fontSize px, in tenths of a pixel
Measure(s, fontSize) == fontSize * Advance(s)

\* the reverse of the comparison below
FitsTooWell(s, fontSize, maxWidth) == Measure(s, fontSize) < 10 * maxWidth

\* metrics.width > maxWidth
Overflows(s, fontSize, maxWidth) == Measure(s, fontSize) > 10 * maxWidth

RECURSIVE SplitChars(_, _, _, _)
\* for (const char of word): the character-level split of a word that is wider
\* than the box on its own
SplitChars(chars, acc, fontSize, maxWidth) ==
    IF chars = <<>> THEN acc
    ELSE LET char == Head(chars)
             next == IF Overflows(Append(acc.subWord, char), fontSize, maxWidth)
                     THEN [ subWord |-> <<char>>,
                            lineStartIndex |-> acc.lineStartIndex + Len(acc.subWord),
                            lines |-> Append(acc.lines, acc.subWord),
                            lineStartIndices |-> Append(acc.lineStartIndices,
                                                        acc.lineStartIndex) ]
                     ELSE [acc EXCEPT !.subWord = Append(@, char)]
         IN SplitChars(Tail(chars), next, fontSize, maxWidth)

\* one iteration of the loop over the words of a paragraph
PlaceWord(st, word, fontSize, maxWidth) ==
    LET testLine == IF st.currentLine # <<>> THEN st.currentLine \o <<" ">> \o word
                    ELSE word
    IN IF Overflows(testLine, fontSize, maxWidth)
       THEN IF st.currentLine = <<>>
            THEN LET r == SplitChars(word,
                                     [ subWord |-> <<>>,
                                       lineStartIndex |-> st.lineStartIndex,
                                       lines |-> st.lines,
                                       lineStartIndices |-> st.lineStartIndices ],
                                     fontSize, maxWidth)
                 IN [ currentLine |-> r.subWord,
                      lineStartIndex |-> r.lineStartIndex,
                      lines |-> r.lines,
                      lineStartIndices |-> r.lineStartIndices ]
            ELSE [ currentLine |-> word,
                   lineStartIndex |-> st.lineStartIndex + Len(st.currentLine) + 1,
                   lines |-> Append(st.lines, st.currentLine),
                   lineStartIndices |-> Append(st.lineStartIndices, st.lineStartIndex) ]
       ELSE [st EXCEPT !.currentLine = testLine]

RECURSIVE PlaceWords(_, _, _, _)
\* for (let i = 0; i < words.length; i++)
PlaceWords(words, st, fontSize, maxWidth) ==
    IF words = <<>> THEN st
    ELSE PlaceWords(Tail(words), PlaceWord(st, Head(words), fontSize, maxWidth),
                    fontSize, maxWidth)

RECURSIVE PlaceParagraphs(_, _, _, _)
\* for (const para of paragraphs)
PlaceParagraphs(paragraphs, acc, fontSize, maxWidth) ==
    IF paragraphs = <<>> THEN acc
    ELSE LET para == Head(paragraphs)
             st == PlaceWords(Split(para, " "),
                              [ currentLine |-> <<>>,
                                lineStartIndex |-> acc.currentGlobalIndex,
                                lines |-> acc.lines,
                                lineStartIndices |-> acc.lineStartIndices ],
                              fontSize, maxWidth)
         IN PlaceParagraphs(Tail(paragraphs),
                            [ lines |-> Append(st.lines, st.currentLine),
                              lineStartIndices |-> Append(st.lineStartIndices,
                                                          st.lineStartIndex),
                              currentGlobalIndex |-> acc.currentGlobalIndex
                                                     + Len(para) + 1 ],
                            fontSize, maxWidth)

RECURSIVE FontLoop(_, _, _)
\* while (fontSize >= MIN_FONT_SIZE): last holds lines and lineStartIndices as
\* the previous iteration left them
FontLoop(in, fontSize, last) ==
    IF fontSize >= MIN_FONT_SIZE
    THEN LET lay == PlaceParagraphs(Split(in.text, "\n"),
                                    [ lines |-> <<>>, lineStartIndices |-> <<>>,
                                      currentGlobalIndex |-> 0 ],
                                    fontSize, in.maxWidth)
             lineHeight == fontSize * in.lineHeightFactor
             totalHeight == Len(lay.lines) * lineHeight
         IN IF totalHeight <= 10 * in.maxHeight \/ fontSize = MIN_FONT_SIZE
            THEN [ lines |-> lay.lines, lineStartIndices |-> lay.lineStartIndices,
                   fontSize |-> fontSize, lineHeight |-> lineHeight ]
            ELSE FontLoop(in, fontSize - 1,
                          [ lines |-> lay.lines,
                            lineStartIndices |-> lay.lineStartIndices,
                            lineHeight |-> lineHeight ])
    ELSE [ lines |-> last.lines, lineStartIndices |-> last.lineStartIndices,
           fontSize |-> fontSize, lineHeight |-> last.lineHeight ]

\* getWrappedLines(ctx, text, maxWidth, maxHeight, baseFontSize, fontFamily,
\* lineHeightFactor); lineHeight and lineHeightFactor are in tenths
GetWrappedLines(in) ==
    FontLoop(in, in.baseFontSize,
             [ lines |-> <<>>, lineStartIndices |-> <<>>,
               lineHeight |-> in.baseFontSize * in.lineHeightFactor ])

\* the arguments drawTextBlock can pass
Inputs ==
    [ text : Texts, maxWidth : Widths, maxHeight : Heights,
      baseFontSize : BaseFonts, lineHeightFactor : {DefaultLineHeight} ]

\* the driver and the image loader take no step
WrapOnly ==
    UNCHANGED <<driverVars, imageVars, textVars, clockVars, slideVars, uploadVars,
                editVars, retryVars>>

\* drawTextBlock lays the text out
Layout ==
    /\ wPc = "input"
    /\ wOut' = GetWrappedLines(wIn)
    /\ wPc' = "done"
    /\ UNCHANGED <<wIn, wPrev, wPasses>>
    /\ WrapOnly

\* the Box Width slider is dragged down a step, and the next frame lays the same
\* text out in the narrower box
NarrowBox ==
    /\ wPc \in {"done", "narrowed"}
    /\ wIn.maxWidth > 0
    /\ wIn' = [wIn EXCEPT !.maxWidth = @ - 1]
    /\ wOut' = GetWrappedLines(wIn')
    /\ wPrev' = [ maxWidth |-> wIn.maxWidth, count |-> Len(wOut.lines),
                  fontSize |-> wOut.fontSize ]
    /\ wPc' = "narrowed"
    /\ UNCHANGED wPasses
    /\ WrapOnly

WrapInit ==
    /\ DriverInit /\ ImageIdle /\ TextIdle /\ ClockIdle /\ SlideIdle /\ UploadIdle /\ EditIdle /\ RetryIdle
    /\ wIn \in Inputs
    /\ wOut = <<>>
    /\ wPrev = <<>>
    /\ wPc = "input"
    /\ wPasses = 0

WrapNext ==
    \/ Layout
    \/ NarrowBox

WrapSpec == WrapInit /\ [][WrapNext]_vars

(***************************************************************************)
(* Claims about the layout engine.                                          *)
(***************************************************************************)
\* String.prototype.substring(a, b): both ends clamped to the text
Substring(s, a, b) ==
    LET clamp(x) == IF x < 0 THEN 0 ELSE IF x > Len(s) THEN Len(s) ELSE x
        lo == IF clamp(a) < clamp(b) THEN clamp(a) ELSE clamp(b)
        hi == IF clamp(a) < clamp(b) THEN clamp(b) ELSE clamp(a)
    IN SubSeq(s, lo + 1, hi)

\* C8: the font size getWrappedLines returns is at least 10 and at most
\* baseFontSize, for every input.
C8_FontSizeRange ==
    wPc # "input" =>
        /\ MIN_FONT_SIZE <= wOut.fontSize
        /\ wOut.fontSize <= wIn.baseFontSize

\* C9: the line-start offsets are strictly increasing, and each line is the
\* substring of the text that starts at its offset and has its length.
C9_OffsetsAddressLines ==
    wPc # "input" =>
        /\ \A i \in 1..(Len(wOut.lines) - 1) :
               wOut.lineStartIndices[i] < wOut.lineStartIndices[i + 1]
        /\ \A i \in 1..Len(wOut.lines) :
               Substring(wIn.text, wOut.lineStartIndices[i],
                         wOut.lineStartIndices[i] + Len(wOut.lines[i])) = wOut.lines[i]

SameSize(fontSize) == fontSize

\* fontSize -= 1
Smaller(fontSize) == fontSize - 1

\* the loop's variables: as declared before the first pass, or as the last pass
\* left them
LoopLocals ==
    IF wPc = "input"
    THEN [ lines |-> <<>>, lineStartIndices |-> <<>>,
           fontSize |-> wIn.baseFontSize,
           lineHeight |-> wIn.baseFontSize * wIn.lineHeightFactor ]
    ELSE wOut

\* the call is at the loop's test, and the test holds
LoopGoesOn == wPc \in {"input", "loop"} /\ LoopLocals.fontSize >= MIN_FONT_SIZE

\* the call is at the loop's test, and the test fails
LoopIsOver == wPc \in {"input", "loop"} /\ LoopLocals.fontSize < MIN_FONT_SIZE

\* one pass of the body of while (fontSize >= MIN_FONT_SIZE): the layout at
\* fontSize, then break, or fontSize -= 1
LoopPass ==
    /\ LoopGoesOn
    /\ LET fontSize == LoopLocals.fontSize
           lay == PlaceParagraphs(Split(wIn.text, "\n"),
                                  [ lines |-> <<>>, lineStartIndices |-> <<>>,
                                    currentGlobalIndex |-> 0 ],
                                  fontSize, wIn.maxWidth)
           lineHeight == fontSize * wIn.lineHeightFactor
           totalHeight == Len(lay.lines) * lineHeight
           break == totalHeight <= 10 * wIn.maxHeight \/ fontSize = MIN_FONT_SIZE
       IN /\ wOut' = [ lines |-> lay.lines, lineStartIndices |-> lay.lineStartIndices,
                       fontSize |-> IF break THEN fontSize ELSE Smaller(fontSize),
                       lineHeight |-> lineHeight ]
          /\ wPc' = IF break THEN "done" ELSE "loop"
    /\ wPasses' = wPasses + 1
    /\ UNCHANGED <<wIn, wPrev>>
    /\ WrapOnly

\* the loop's condition fails, and getWrappedLines returns
LoopExit ==
    /\ LoopIsOver
    /\ wOut' = LoopLocals
    /\ wPc' = "done"
    /\ UNCHANGED <<wIn, wPrev, wPasses>>
    /\ WrapOnly

LoopNext ==
    \/ LoopPass
    \/ LoopExit

LoopSpec == WrapInit /\ [][LoopNext]_vars

\* the font sizes from the base font size down to the minimum
Descent(in) == MIN_FONT_SIZE..in.baseFontSize

MaxTimingLen == 3

\* one character of every class the weights tell apart
TimingChars == {".", ",", "\n", " ", "A", "1", "a"}
TimingTexts == UNION { [1..n -> TimingChars] : n \in 0..MaxTimingLen }

\* /[A-Z]/
UpperCase ==
    { "A", "B", "C", "D", "E", "F", "G", "H", "I", "J", "K", "L", "M",
      "N", "O", "P", "Q", "R", "S", "T", "U", "V", "W", "X", "Y", "Z" }

\* /[0-9]/
Digits == {"0", "1", "2", "3", "4", "5", "6", "7", "8", "9"}

\* a timing map that knows no pauses
EvenWeight(char) == 10

\* the weight of one character, in the order the code tests for it
CharWeight(char) ==
    IF char \in {".", "!", "?", ":", ";"} THEN 120
    ELSE IF char = "," THEN 60
    ELSE IF char = "\n" THEN 250
    ELSE IF char = " " THEN 0
    ELSE IF char \in UpperCase THEN 12
    ELSE IF char \in Digits THEN 15
    ELSE 10

RECURSIVE TimingLoop(_, _, _, _)
\* for (let i = 0; i < text.length; i++), with i counted from 1
TimingLoop(text, i, weights, totalWeight) ==
    IF i > Len(text) THEN [weights |-> weights, totalWeight |-> totalWeight]
    ELSE LET weight == CharWeight(text[i])
         IN TimingLoop(text, i + 1, Append(weights, totalWeight + weight),
                       totalWeight + weight)

\* generateTextTimingMap(text)
GenerateTextTimingMap(text) == TimingLoop(text, 1, <<>>, 0)

\* the other parts of the editor take no step
TimingOnly ==
    UNCHANGED <<driverVars, imageVars, wrapVars, dIn, dOut, dPc, clockVars, slideVars, uploadVars,
                editVars, retryVars>>

\* useMemo(() => generateTextTimingMap(cleanTranscript), [cleanTranscript])
BuildTimingMap ==
    /\ tMap = <<>>
    /\ tMap' = GenerateTextTimingMap(tText)
    /\ UNCHANGED tText
    /\ TimingOnly

TimingInit ==
    /\ DriverInit /\ ImageIdle /\ WrapIdle /\ ClockIdle /\ SlideIdle /\ UploadIdle /\ EditIdle /\ RetryIdle
    /\ tText \in TimingTexts
    /\ tMap = <<>>
    /\ dIn = <<>> /\ dOut = <<>> /\ dPc = "input"

TimingNext ==
    \/ BuildTimingMap

TimingSpec == TimingInit /\ [][TimingNext]_vars

(***************************************************************************)
(* Claims about the timing map.                                             *)
(***************************************************************************)
\* the per-character base weight the claim lists, in tenths
ListedWeight(char) ==
    CASE char \in {".", "!", "?", ":", ";"} -> 120
      [] char = "," -> 60
      [] char = "\n" -> 250
      [] char = " " -> 0
      [] char \in UpperCase -> 12
      [] char \in Digits -> 15
      [] OTHER -> 10

RECURSIVE ListedSum(_, _)
\* the sum of the listed weights of the first n characters of text
ListedSum(text, n) == IF n = 0 THEN 0 ELSE ListedSum(text, n - 1) + ListedWeight(text[n])

\* C13: generateTextTimingMap(T) returns as many weights as T has characters, the
\* i-th the sum of the listed per-character weights of T up to and including
\* character i; the weights never decrease, and totalWeight is the sum over T.
C13_CumulativeWeights ==
    tMap # <<>> =>
        /\ Len(tMap.weights) = Len(tText)
        /\ \A i \in 1..Len(tText) : tMap.weights[i] = ListedSum(tText, i)
        /\ \A i \in 1..(Len(tText) - 1) : tMap.weights[i] <= tMap.weights[i + 1]
        /\ tMap.totalWeight = ListedSum(tText, Len(tText))

\* C13's case: the map of a text with an uppercase letter, a space and a full stop
C13_Witness ==
    /\ tMap # <<>>
    /\ tText = <<"A", " ", ".">>
    /\ tMap.weights = <<12, 12, 132>>

(***************************************************************************)
(* The text block renderer: drawTextBlock.  Times are in tenths of a        *)
(* second, character indices count from 0 as in the code.                   *)
(***************************************************************************)
Animations ==
    { "STATIC", "KARAOKE", "ACTIVE_WORD", "TYPEWRITER", "BOUNCE", "SLIDE_UP",
      "SENTENCE", "SUBTITLE" }

\* rawProgress * totalDuration: Math.min(1, Math.max(0, currentTime / totalDuration))
ClampedTime(in) ==
    IF in.currentTime < 0 THEN 0
    ELSE IF in.currentTime > in.totalDuration THEN in.totalDuration
    ELSE in.currentTime

\* a search for the first weight that is not above the target
FindIndexBelow(weights, in, totalWeight) ==
    LET hits == { i \in 1..Len(weights) :
                    weights[i] * in.totalDuration <= ClampedTime(in) * totalWeight }
    IN IF hits = {} THEN -1
       ELSE (CHOOSE i \in hits : \A j \in hits : i <= j) - 1

\* timingWeights.findIndex(w => w >= targetWeight), counted from 0; -1 if none
FindIndex(weights, in, totalWeight) ==
    LET hits == { i \in 1..Len(weights) :
                    weights[i] * in.totalDuration >= ClampedTime(in) * totalWeight }
    IN IF hits = {} THEN -1
       ELSE (CHOOSE i \in hits : \A j \in hits : i <= j) - 1

\* a character index that forgets the text's pauses
LinearIndex(in, map) == (ClampedTime(in) * Len(in.text)) \div in.totalDuration

\* let charIndex = 0; if (...) {...} else {...}
CharIndex(in, map) ==
    IF ~in.isSecondary /\ in.totalDuration > 0 /\ map.totalWeight > 0
    THEN LET idx == FindIndex(map.weights, in, map.totalWeight)
         IN IF idx = -1 THEN Len(in.text) ELSE idx
    ELSE (ClampedTime(in) * Len(in.text)) \div in.totalDuration

RECURSIVE WordStart(_, _)
\* while (s > 0 && text[s-1] !== ' ' && text[s-1] !== '\n') s--
WordStart(text, s) ==
    IF s > 0 /\ text[s] # " " /\ text[s] # "\n" THEN WordStart(text, s - 1) ELSE s

RECURSIVE WordEnd(_, _)
\* while (e < text.length && text[e] !== ' ' && text[e] !== '\n') e++
WordEnd(text, e) ==
    IF e < Len(text) /\ text[e + 1] # " " /\ text[e + 1] # "\n"
    THEN WordEnd(text, e + 1) ELSE e

\* a scan that takes the word to start at the index and only looks to the right
WordFromIndex(text, charIndex) ==
    LET sIndex == IF charIndex < Len(text) - 1 THEN charIndex ELSE Len(text) - 1
        s == IF sIndex < 0 THEN 0 ELSE sIndex
    IN [start |-> s, end |-> WordEnd(text, s)]

\* activeWordStart and activeWordEnd
ActiveWord(text, charIndex) ==
    LET sIndex == IF charIndex < Len(text) - 1 THEN charIndex ELSE Len(text) - 1
        s == WordStart(text, IF sIndex < 0 THEN 0 ELSE sIndex)
    IN [start |-> s, end |-> WordEnd(text, s)]

\* a splitter that does not end a sentence at a newline
EndsSentenceInLine(char) == char \in {".", "!", "?"}

\* [.!?\n]
EndsSentence(char) == char \in {".", "!", "?", "\n"}

RECURSIVE RunEnd(_, _, _)
\* the end of the longest run from position p (counted from 0) of characters that
\* end a sentence (ending = TRUE) or that do not (ending = FALSE)
RunEnd(text, p, ending) ==
    IF p < Len(text) /\ (EndsSentence(text[p + 1]) <=> ending)
    THEN RunEnd(text, p + 1, ending) ELSE p

RECURSIVE Sentences(_, _)
\* while ((match = boundaryRegex.exec(text)) !== null), for the regular expression
\* /[^.!?\n]+(?:[.!?\n]+|$)/g, from lastIndex p
Sentences(text, p) ==
    LET start == RunEnd(text, p, TRUE)
        end == RunEnd(text, RunEnd(text, start, FALSE), TRUE)
    IN IF start >= Len(text) THEN <<>>
       ELSE <<[start |-> start, end |-> end]>> \o Sentences(text, end)

\* sentences.find(sent => charIndex >= sent.start && charIndex < sent.end)
ActiveSentence(sentences, charIndex) ==
    LET hits == { i \in 1..Len(sentences) :
                    charIndex >= sentences[i].start /\ charIndex < sentences[i].end }
    IN IF hits = {} THEN [start |-> -1, end |-> -1]
       ELSE sentences[CHOOSE i \in hits : \A j \in hits : i <= j]

\* \s, for the characters of the model
IsSpace(char) == char \in {" ", "\n"}

RECURSIVE SkipSpace(_)
SkipSpace(s) == IF s # <<>> /\ IsSpace(Head(s)) THEN SkipSpace(Tail(s)) ELSE s

RECURSIVE BreakSentences(_)
\* text.replace(/([.!?])\s+/g, '$1\n')
BreakSentences(s) ==
    IF s = <<>> THEN <<>>
    ELSE IF Head(s) \in {".", "!", "?"} /\ Len(s) > 1 /\ IsSpace(s[2])
         THEN <<Head(s), "\n">> \o BreakSentences(SkipSpace(Tail(s)))
         ELSE <<Head(s)>> \o BreakSentences(Tail(s))

RECURSIVE TrimEnd(_)
TrimEnd(s) ==
    IF s # <<>> /\ IsSpace(s[Len(s)]) THEN TrimEnd(SubSeq(s, 1, Len(s) - 1)) ELSE s

\* String.prototype.trim
Trim(s) == TrimEnd(SkipSpace(s))

\* processedText
ProcessedText(in) ==
    IF ~in.isSecondary /\ in.animation = "SENTENCE"
    THEN Trim(BreakSentences(in.text))
    ELSE in.text

\* const linesPerPage = 2
LinesPerPage == 2

\* the arguments of getWrappedLines in drawTextBlock
WrapArgs(in) ==
    [ text |-> ProcessedText(in), maxWidth |-> in.maxWidth,
      maxHeight |-> in.maxHeight, baseFontSize |-> in.baseFontSize,
      lineHeightFactor |-> in.lineHeightFactor ]

\* lines.slice(i, i + linesPerPage), i counted from 0
Slice2(s, i) ==
    SubSeq(s, i + 1, IF i + LinesPerPage < Len(s) THEN i + LinesPerPage ELSE Len(s))

\* endChar of the page that starts with line i
EndChar(in, i, w) ==
    IF i + LinesPerPage < Len(w.lines)
    THEN w.lineStartIndices[i + LinesPerPage + 1]
    ELSE Len(in.text) + 1

RECURSIVE PageLoop(_, _, _)
\* for (let i = 0; i < lines.length; i += linesPerPage) pages.push(...)
PageLoop(in, i, w) ==
    IF i >= Len(w.lines) THEN <<>>
    ELSE <<[ lines |-> Slice2(w.lines, i),
             indices |-> Slice2(w.lineStartIndices, i),
             startChar |-> w.lineStartIndices[i + 1],
             endChar |-> EndChar(in, i, w) ]>>
         \o PageLoop(in, i + LinesPerPage, w)

\* a renderer that pages the second track as well
PagedAlways(in) == in.animation # "SLIDE_UP"

\* if (!isSecondary && style.animation !== TranscriptAnimation.SLIDE_UP)
Paged(in) == ~in.isSecondary /\ in.animation # "SLIDE_UP"

\* pages
Pages(in, w) == IF Paged(in) THEN PageLoop(in, 0, w) ELSE <<>>

\* pages.find(p => charIndex >= p.startChar && charIndex < p.endChar)
\*   || pages[pages.length - 1]; 0 where there is no page
ActivePage(pages, charIndex) ==
    LET hits == { k \in 1..Len(pages) :
                    charIndex >= pages[k].startChar /\ charIndex < pages[k].endChar }
    IN IF hits # {} THEN CHOOSE k \in hits : \A j \in hits : k <= j
       ELSE Len(pages)

Min(a, b) == IF a < b THEN a ELSE b
Max(a, b) == IF a > b THEN a ELSE b

\* a karaoke fill that runs from the end of the line
ProgressFromEnd(len, localCharIndex) == len - Min(len, Max(0, localCharIndex))

\* progressInLine = Math.min(line.length, Math.max(0, localCharIndex))
ProgressInLine(len, localCharIndex) == Min(len, Max(0, localCharIndex))

\* a typewriter that counts every line from the start of the text
WholeIndex(charIndex, lineGlobalStart) == Max(0, charIndex)

\* localVisibleLen = Math.max(0, charIndex - lineGlobalStart)
LocalVisibleLen(charIndex, lineGlobalStart) == Max(0, charIndex - lineGlobalStart)

\* a renderer whose plain lines are always in the highlight color
AlwaysHighlight(in) == "highlightColor"

\* (isSecondary || style.animation === TranscriptAnimation.STATIC)
\*   ? style.textColor : style.highlightColor
PlainColor(in) ==
    IF in.isSecondary \/ in.animation = "STATIC" THEN "textColor" ELSE "highlightColor"

\* one fillText call: the text, its fill style, its offset from the line's drawX in
\* tenths of a pixel, the width of the clip rectangle (-1: unclipped), and the
\* time that enters the bounce offset Math.sin(currentTime * 10) * 10 (-1: none)
FillText(row, text, color, dx, clip, bounce) ==
    [ row |-> row, text |-> text, color |-> color, dx |-> dx, clip |-> clip,
      bounce |-> bounce ]

\* the body of visibleLines.forEach((line, i) => ...)
DrawLine(in, line, i, lineGlobalStart, charIndex, word, sentence, fontSize) ==
    IF ~in.isSecondary /\ in.animation = "SENTENCE" THEN
        LET overlapStart == Max(lineGlobalStart, sentence.start)
            overlapEnd == Min(lineGlobalStart + Len(line), sentence.end)
        IN IF overlapStart < overlapEnd /\ sentence.start # -1
           THEN <<FillText(i, line, "highlightColor", 0, -1, -1)>>
           ELSE <<FillText(i, line, "textColor", 0, -1, -1)>>
    ELSE IF ~in.isSecondary /\ in.animation = "KARAOKE" THEN
        LET progressInLine == ProgressInLine(Len(line), charIndex - lineGlobalStart)
            activePart == Substring(line, 0, progressInLine)
        IN << FillText(i, line, "textColor", 0, -1, -1),
              FillText(i, line, "highlightColor", 0, Measure(activePart, fontSize), -1) >>
    ELSE IF ~in.isSecondary /\ in.animation = "SUBTITLE" THEN
        LET overlapStart == Max(lineGlobalStart, word.start)
            overlapEnd == Min(lineGlobalStart + Len(line), word.end)
            localStart == overlapStart - lineGlobalStart
            localEnd == overlapEnd - lineGlobalStart
        IN IF overlapStart < overlapEnd
           THEN << FillText(i, line, "textColor", 0, -1, -1),
                   FillText(i, Substring(line, localStart, localEnd), "highlightColor",
                            Measure(Substring(line, 0, localStart), fontSize), -1, -1) >>
           ELSE <<FillText(i, line, "textColor", 0, -1, -1)>>
    ELSE IF ~in.isSecondary /\ in.animation = "TYPEWRITER" THEN
        <<FillText(i, Substring(line, 0, LocalVisibleLen(charIndex, lineGlobalStart)),
                   "textColor", 0, -1, -1)>>
    ELSE IF ~in.isSecondary /\ in.animation = "BOUNCE" THEN
        <<FillText(i, line, "highlightColor", 0, -1, in.currentTime)>>
    ELSE <<FillText(i, line, PlainColor(in), 0, -1, -1)>>

RECURSIVE DrawLines(_, _, _, _, _, _, _, _)
\* visibleLines.forEach, from line i (counted from 0) on
DrawLines(in, visibleLines, visibleIndices, i, charIndex, word, sentence, fontSize) ==
    IF i >= Len(visibleLines) THEN <<>>
    ELSE DrawLine(in, visibleLines[i + 1], i, visibleIndices[i + 1], charIndex, word,
                  sentence, fontSize)
         \o DrawLines(in, visibleLines, visibleIndices, i + 1, charIndex, word,
                      sentence, fontSize)

\* a vertical offset that is always the centred one, whatever the mode
CenteredY(in, w, visibleLines) ==
    IF Len(visibleLines) * w.lineHeight > 10 * in.maxHeight THEN 0
    ELSE (10 * in.maxHeight - Len(visibleLines) * w.lineHeight) * in.totalDuration

\* drawY, counted from boxY + pTop in units of 1 / (20 * totalDuration) pixel;
\* line heights are in tenths of a pixel
DrawY(in, w, visibleLines) ==
    LET totalTextHeight == Len(visibleLines) * w.lineHeight
        availableHeight == 10 * in.maxHeight
        fullHeight == Len(w.lines) * w.lineHeight
        scrollableHeight == Max(0, fullHeight - availableHeight)
    IN IF ~in.isSecondary /\ in.animation = "SLIDE_UP"
       THEN 0 - 2 * scrollableHeight * ClampedTime(in)
       ELSE IF totalTextHeight > availableHeight THEN 0
       ELSE (availableHeight - totalTextHeight) * in.totalDuration

\* what a call that returns at once leaves behind
NothingDrawn ==
    [ drawn |-> FALSE, charIndex |-> 0, word |-> [start |-> -1, end |-> -1],
      sentences |-> <<>>, sentence |-> [start |-> -1, end |-> -1],
      wrapped |-> <<>>, pages |-> <<>>, visibleLines |-> <<>>,
      visibleIndices |-> <<>>, drawY |-> 0, ops |-> <<>> ]

\* drawTextBlock(ctx, text, style, currentTime, totalDuration, isSecondary), with
\* (text)'s timing map
DrawTextBlock(in, map) ==
    IF in.text = <<>> \/ ~in.isVisible THEN NothingDrawn
    ELSE
    LET charIndex == CharIndex(in, map)
        word == IF in.isSecondary THEN [start |-> -1, end |-> -1]
                ELSE ActiveWord(in.text, charIndex)
        sentences == IF in.isSecondary THEN <<>> ELSE Sentences(in.text, 0)
        sentence == ActiveSentence(sentences, charIndex)
        w == GetWrappedLines(WrapArgs(in))
        pages == Pages(in, w)
        activePage == ActivePage(pages, charIndex)
        visibleLines == IF activePage # 0 THEN pages[activePage].lines ELSE w.lines
        visibleIndices == IF activePage # 0 THEN pages[activePage].indices
                          ELSE w.lineStartIndices
    IN [ drawn |-> TRUE, charIndex |-> charIndex, word |-> word,
         sentences |-> sentences, sentence |-> sentence, wrapped |-> w,
         pages |-> pages, visibleLines |-> visibleLines,
         visibleIndices |-> visibleIndices,
         drawY |-> DrawY(in, w, visibleLines),
         ops |-> DrawLines(in, visibleLines, visibleIndices, 0, charIndex, word,
                           sentence, w.fontSize) ]

MaxDrawLen == 3
TimeSteps == 4

\* let maxDur = 10, in tenths of a second
DefaultDuration == 100

DrawChars == {"a", ".", " ", "\n"}

\* "Hello world.\nBye!"
HelloBye ==
    << "H", "e", "l", "l", "o", " ", "w", "o", "r", "l", "d", ".", "\n",
       "B", "y", "e", "!" >>

DrawTexts == UNION { [1..n -> DrawChars] : n \in 0..MaxDrawLen } \cup {HelloBye}

\* the frame times of the model: a grid over the duration, its middle and one
\* time past it
Times ==
    { (k * DefaultDuration) \div TimeSteps : k \in 0..(TimeSteps + 1) }
        \cup {DefaultDuration \div 2}

\* the animation of INITIAL_TRANSCRIPT_STYLE and of INITIAL_SECONDARY_STYLE
InitialAnimation(isSecondary) == IF isSecondary THEN "STATIC" ELSE "KARAOKE"

\* the text, style and clock drawFrame hands to drawTextBlock at the first frame
DrawInputs ==
    { in \in [ text : DrawTexts, isVisible : BOOLEAN, isSecondary : BOOLEAN,
               animation : {"STATIC", "KARAOKE"}, currentTime : {0},
               totalDuration : {DefaultDuration},
               maxWidth : {0, MaxWidth \div 2, MaxWidth},
               maxHeight : {2 * MaxBaseFont},
               baseFontSize : {MIN_FONT_SIZE - 1, MIN_FONT_SIZE},
               lineHeightFactor : {DefaultLineHeight} ] :
        in.animation = InitialAnimation(in.isSecondary) }

\* the other parts of the editor take no step
DrawOnly ==
    UNCHANGED <<driverVars, imageVars, wrapVars, tText, tMap, clockVars, slideVars, uploadVars,
                editVars, retryVars>>

\* the first frame
Draw ==
    /\ dPc = "input"
    /\ dOut' = DrawTextBlock(dIn, tMap)
    /\ dPc' = "drawn"
    /\ UNCHANGED dIn
    /\ DrawOnly

\* a later frame: drawFrame(time) with the clock further on
NextFrame ==
    /\ dPc = "drawn"
    /\ \E t \in Times :
        /\ t > dIn.currentTime
        /\ \A u \in Times : u > dIn.currentTime => t <= u
        /\ dIn' = [dIn EXCEPT !.currentTime = t]
    /\ dOut' = DrawTextBlock(dIn', tMap)
    /\ UNCHANGED dPc
    /\ DrawOnly

\* the animation select of the style panel, and the frame drawn after it
SetAnimation ==
    /\ dPc = "drawn"
    /\ \E a \in Animations \ {dIn.animation} :
        dIn' = [dIn EXCEPT !.animation = a]
    /\ dOut' = DrawTextBlock(dIn', tMap)
    /\ UNCHANGED dPc
    /\ DrawOnly

\* the timing map is the one of the text: of cleanTranscript for the first track;
\* the second track never reads it
DrawInit ==
    /\ DriverInit /\ ImageIdle /\ WrapIdle /\ ClockIdle /\ SlideIdle /\ UploadIdle /\ EditIdle /\ RetryIdle
    /\ dIn \in DrawInputs
    /\ tText = dIn.text
    /\ tMap = GenerateTextTimingMap(tText)
    /\ dOut = <<>>
    /\ dPc = "input"

DrawNext ==
    \/ Draw
    \/ NextFrame
    \/ SetAnimation

DrawSpec == DrawInit /\ [][DrawNext]_vars


\* the character indices of a page: [startChar, endChar)
PageRange(page) == page.startChar..(page.endChar - 1)

\* C12: in every paginated mode (every mode but Slide Up on the first track,
\* Sentence included) the ranges [startChar, endChar) of the pages are pairwise
\* disjoint and their union is exactly [0, text.length + 1).
C12_PagesPartition ==
    (dPc = "drawn" /\ dOut.drawn /\ Paged(dIn)) =>
        /\ \A j, k \in 1..Len(dOut.pages) :
              j # k => PageRange(dOut.pages[j]) \cap PageRange(dOut.pages[k]) = {}
        /\ UNION { PageRange(dOut.pages[k]) : k \in 1..Len(dOut.pages) }
              = 0..Len(dIn.text)

\* the first index (counted from 0) whose cumulative listed weight is at least
\* progress x totalWeight, for progress = time / duration; the text's length if
\* no index qualifies
FirstAtTarget(text, time, duration) ==
    LET hits == { i \in 0..(Len(text) - 1) :
                    ListedSum(text, i + 1) * duration
                        >= time * ListedSum(text, Len(text)) }
    IN IF hits = {} THEN Len(text)
       ELSE CHOOSE i \in hits : \A j \in hits : i <= j

\* the indices (counted from 0) of the characters of nonzero weight
Weighty(text) == { i \in 0..(Len(text) - 1) : ListedWeight(text[i + 1]) > 0 }

\* charIndex at the end of the duration is the text's length or the index of the
\* last character of nonzero weight
EndsAtLastWeighty ==
    dIn.currentTime >= dIn.totalDuration =>
        \/ dOut.charIndex = Len(dIn.text)
        \/ /\ dOut.charIndex \in Weighty(dIn.text)
           /\ \A i \in Weighty(dIn.text) : i <= dOut.charIndex

\* a frame of the first track that drew
PrimaryDrawn == dPc = "drawn" /\ dOut.drawn /\ ~dIn.isSecondary

\* C14 as stated: at progress 1 the character index is T.length or the index of
\* the last nonzero-weight character, and for every progress in [0,1] it is the
\* first index whose cumulative weight is >= progress x totalWeight, or T.length
\* if no index qualifies.
C14_FirstQualifyingIndex ==
    PrimaryDrawn =>
        /\ EndsAtLastWeighty
        /\ dOut.charIndex = FirstAtTarget(dIn.text, ClampedTime(dIn), dIn.totalDuration)

\* C14, amended: the rule of the first qualifying index holds for every text of
\* nonzero total weight; for a text of total weight 0 (spaces only) the index is
\* floor(progress x T.length); in both cases the index at progress 1 is T.length
\* or the index of the last nonzero-weight character.
C14_WeightedOrLinear ==
    PrimaryDrawn =>
        /\ EndsAtLastWeighty
        /\ IF ListedSum(dIn.text, Len(dIn.text)) > 0
           THEN dOut.charIndex
                   = FirstAtTarget(dIn.text, ClampedTime(dIn), dIn.totalDuration)
           ELSE dOut.charIndex
                   = (ClampedTime(dIn) * Len(dIn.text)) \div dIn.totalDuration

\* C14's case: a text of spaces only, half way through the duration
C14_Witness ==
    /\ PrimaryDrawn
    /\ dIn.text = <<" ", " ">>
    /\ 2 * dIn.currentTime = dIn.totalDuration
    /\ dOut.charIndex = 1

RECURSIVE Revealed(_)
\* the number of characters the fillText calls of a frame put on the canvas
Revealed(ops) == IF ops = <<>> THEN 0 ELSE Len(Head(ops).text) + Revealed(Tail(ops))

\* a Typewriter frame of the first track half way through the duration
\* (totalDuration = 10, elapsedTime = 5)
TypewriterAtHalf ==
    /\ PrimaryDrawn
    /\ dIn.animation = "TYPEWRITER"
    /\ 2 * dIn.currentTime = dIn.totalDuration

\* C15 as stated: with totalDuration = 10 and elapsedTime = 5, Typewriter mode on
\* the primary track reveals exactly floor(0.5 x text.length) characters.
C15_HalfRevealed ==
    TypewriterAtHalf => Revealed(dOut.ops) = Len(dIn.text) \div 2

\* C15, amended: with totalDuration = 10 and elapsedTime = 5, Typewriter mode
\* reveals, of every line of the active page, the prefix of
\* min(line.length, max(0, charIndex - lineStart)) characters in the text color,
\* where charIndex is the first index whose cumulative weight is at least half the
\* total weight (floor(0.5 x text.length) only for a text of weight 0); the number
\* of revealed characters never exceeds charIndex.
C15_WeightedReveal ==
    TypewriterAtHalf =>
        /\ dOut.charIndex =
              IF ListedSum(dIn.text, Len(dIn.text)) > 0
              THEN FirstAtTarget(dIn.text, 1, 2)
              ELSE Len(dIn.text) \div 2
        /\ Len(dOut.ops) = Len(dOut.visibleLines)
        /\ \A i \in 1..Len(dOut.ops) :
              LET line == dOut.visibleLines[i]
                  shown == Min(Len(line), Max(0, dOut.charIndex - dOut.visibleIndices[i]))
              IN /\ dOut.ops[i].text = SubSeq(line, 1, shown)
                 /\ dOut.ops[i].color = "textColor"
        /\ Revealed(dOut.ops) <= dOut.charIndex

\* C15's case: "Hello world.\nBye!" half way: the pause after the first sentence
\* holds the index at the newline, 11 characters are revealed and not 8
C15_Witness ==
    /\ TypewriterAtHalf
    /\ dIn.text = HelloBye
    /\ dIn.maxWidth = MaxWidth
    /\ dOut.charIndex = 12
    /\ Revealed(dOut.ops) > Len(dIn.text) \div 2

\* a Karaoke frame of the first track
KaraokeDrawn(in, out, pc) ==
    pc = "drawn" /\ out.drawn /\ ~in.isSecondary /\ in.animation = "KARAOKE"

\* the lines of a Karaoke frame: the line, its start offset and the width of the
\* clip rectangle of its highlighted copy (the second fillText of the line)
KaraokeLines(out) ==
    { [ line |-> out.visibleLines[i], start |-> out.visibleIndices[i],
        width |-> out.ops[2 * i].clip ] : i \in 1..Len(out.visibleLines) }

\* the width of the highlight of every line is the measure of the prefix of
\* min(line.length, max(0, charIndex - lineStart)) characters: 0 up to the start
\* of the line, the width of the line from its end on
KaraokePrefix(in, out, pc) ==
    KaraokeDrawn(in, out, pc) =>
        /\ Len(out.ops) = 2 * Len(out.visibleLines)
        /\ \A l \in KaraokeLines(out) :
              LET shown == Min(Len(l.line), Max(0, out.charIndex - l.start))
              IN /\ l.width = Measure(SubSeq(l.line, 1, shown), out.wrapped.fontSize)
                 /\ out.charIndex <= l.start => l.width = 0
                 /\ out.charIndex >= l.start + Len(l.line)
                       => l.width = Measure(l.line, out.wrapped.fontSize)

\* C16: in Karaoke mode, for a fixed line and line-start offset, the revealed
\* prefix length min(line.length, max(0, charIndex - lineStart)) and the
\* highlighted width measured from it never decrease as the character index
\* increases; the width is 0 before the line starts and the full line width once
\* the index passes the line's end.
C16_KaraokeMonotone ==
    [][ /\ KaraokePrefix(dIn, dOut, dPc)
        /\ KaraokePrefix(dIn', dOut', dPc')
        /\ ( /\ KaraokeDrawn(dIn, dOut, dPc)
             /\ KaraokeDrawn(dIn', dOut', dPc')
             /\ dOut.charIndex <= dOut'.charIndex )
           => \A a \in KaraokeLines(dOut), b \in KaraokeLines(dOut') :
                 (a.line = b.line /\ a.start = b.start) => a.width <= b.width
      ]_vars

\* C16's case: a later Karaoke frame with a line that does not start the text
\* highlighted in part
C16_Witness ==
    /\ KaraokeDrawn(dIn, dOut, dPc)
    /\ dIn.currentTime > 0
    /\ \E l \in KaraokeLines(dOut) :
          /\ l.start > 0
          /\ l.width > 0
          /\ l.width < Measure(l.line, dOut.wrapped.fontSize)

\* the texts of the sentences: text.substring(start, end) of every range
SentenceTexts(text, sentences) ==
    [ i \in 1..Len(sentences) |->
        Substring(text, sentences[i].start, sentences[i].end) ]

\* a frame of the first track with the text "Hello world.\nBye!"
HelloByeDrawn == PrimaryDrawn /\ dIn.text = HelloBye

\* C17 as stated: the sentence splitter applied to "Hello world.\nBye!" yields
\* exactly two sentences whose texts are "Hello world." and "Bye!".
C17_TwoSentences ==
    HelloByeDrawn =>
        SentenceTexts(dIn.text, dOut.sentences)
            = << SubSeq(HelloBye, 1, 12), SubSeq(HelloBye, 14, 17) >>

\* C17, amended: the splitter yields exactly two sentences, the ranges [0, 13)
\* and [13, 17): the first sentence is "Hello world.\n", the newline after the
\* full stop included, the second is "Bye!".
C17_NewlineInSentence ==
    HelloByeDrawn =>
        /\ dOut.sentences = << [start |-> 0, end |-> 13], [start |-> 13, end |-> 17] >>
        /\ SentenceTexts(dIn.text, dOut.sentences)
              = << SubSeq(HelloBye, 1, 13), SubSeq(HelloBye, 14, 17) >>

\* C17's case: a frame of "Hello world.\nBye!" with the index on the newline,
\* which the first sentence holds
C17_Witness ==
    /\ HelloByeDrawn
    /\ dIn.text[dOut.charIndex + 1] = "\n"
    /\ dOut.sentence = [start |-> 0, end |-> 13]

\* a frame of the second track that drew
SecondaryDrawn(in, out, pc) == pc = "drawn" /\ out.drawn /\ in.isSecondary

\* every line of (lines) is drawn once, whole, at its row, unclipped and without
\* offset, in the text color
DrawnWhole(out, lines) ==
    /\ Len(out.ops) = Len(lines)
    /\ \A i \in 1..Len(lines) :
          out.ops[i] = FillText(i - 1, lines[i], "textColor", 0, -1, -1)

\* the second track draws the full set of the wrapped lines of its text, in the
\* text color
SecondaryWhole(in, out, pc) ==
    SecondaryDrawn(in, out, pc) =>
        /\ out.wrapped = GetWrappedLines([WrapArgs(in) EXCEPT !.text = in.text])
        /\ out.pages = <<>>
        /\ out.visibleLines = out.wrapped.lines
        /\ DrawnWhole(out, out.wrapped.lines)

\* C19: the secondary track's draw output is independent of elapsed time and of
\* the animation mode: for any two elapsed times and any two animation modes,
\* all other inputs equal, the same full set of wrapped lines is drawn at the
\* same positions in the base text color, without pagination or reveal.
C19_SecondaryStatic ==
    [][ /\ SecondaryWhole(dIn, dOut, dPc)
        /\ SecondaryWhole(dIn', dOut', dPc')
        /\ (SecondaryDrawn(dIn, dOut, dPc) /\ SecondaryDrawn(dIn', dOut', dPc'))
              => /\ dOut'.ops = dOut.ops
                 /\ dOut'.drawY = dOut.drawY
                 /\ dOut'.wrapped = dOut.wrapped
      ]_vars

\* C19's case: a later frame of the second track in Typewriter mode, of a text
\* of more lines than a page of the first track holds
C19_Witness ==
    /\ SecondaryDrawn(dIn, dOut, dPc)
    /\ dIn.animation = "TYPEWRITER"
    /\ dIn.currentTime > 0
    /\ Len(dOut.wrapped.lines) > LinesPerPage
    /\ Len(dOut.ops) = Len(dOut.wrapped.lines)

\* a Static frame of the first track
StaticDrawn(in, out, pc) ==
    pc = "drawn" /\ out.drawn /\ ~in.isSecondary /\ in.animation = "STATIC"

\* C20 as stated: in Static mode on the primary track every drawn line is whole
\* and in the base text color, and two frames composed at different elapsed
\* times with otherwise equal inputs draw the same lines.
C20_StaticNoTime ==
    [][ (StaticDrawn(dIn, dOut, dPc) /\ StaticDrawn(dIn', dOut', dPc'))
           => /\ DrawnWhole(dOut, dOut.visibleLines)
              /\ DrawnWhole(dOut', dOut'.visibleLines)
              /\ dOut'.ops = dOut.ops
      ]_vars

\* C20, amended: in Static mode on the primary track every drawn line is whole
\* and in the base text color; the lines drawn are those of the page (two lines)
\* that holds the character index, so two frames at different elapsed times draw
\* the same lines when the text wraps to at most two lines or when the index is
\* on the same page in both.
C20_StaticPerPage ==
    [][ (StaticDrawn(dIn, dOut, dPc) /\ StaticDrawn(dIn', dOut', dPc'))
           => /\ DrawnWhole(dOut, dOut.visibleLines)
              /\ DrawnWhole(dOut', dOut'.visibleLines)
              /\ dOut'.pages = dOut.pages
              /\ \/ dOut'.pages = <<>>
                 \/ dOut'.visibleLines
                       = dOut'.pages[ActivePage(dOut'.pages, dOut'.charIndex)].lines
              /\ ( \/ Len(dOut.wrapped.lines) <= LinesPerPage
                   \/ ActivePage(dOut.pages, dOut.charIndex)
                         = ActivePage(dOut'.pages, dOut'.charIndex) )
                    => (dOut'.ops = dOut.ops /\ dOut'.drawY = dOut.drawY)
      ]_vars

\* C20's case: a Static frame of the first track that shows the second page of
\* its text
C20_Witness ==
    /\ StaticDrawn(dIn, dOut, dPc)
    /\ dIn.currentTime > 0
    /\ Len(dOut.pages) > 1
    /\ dOut.visibleLines = dOut.pages[2].lines
    /\ dOut.visibleLines # dOut.pages[1].lines

(***************************************************************************)
(* The preview loop's clock: the elapsed time renderLoop hands to          *)
(* drawFrame.  Times are in tenths of a second.  Date.now() is the system  *)
(* clock: it runs forward and it can be set back.                           *)
(***************************************************************************)
MaxClock == 205
MaxLate == 2
PreviewDur == 10

\* the 1 of simTime % (maxDur + 1), in tenths of a second
OneSecond == 10

\* the 20 of simTime % 20, in tenths of a second
FallbackWindow == 200

\* JavaScript's a % n for n > 0: the remainder has the sign of a
Rem(a, n) == IF a >= 0 THEN a % n ELSE 0 - ((0 - a) % n)

\* audioBuffer.duration / playbackSpeed
MaxDur(buffer) == buffer.duration \div buffer.playbackSpeed

\* the body of renderLoop up to drawFrame(ctx, simTime, maxDur); wallClock is
\* (now - startTime) / 1000
RenderLoop(buffer, now, startTime) ==
    LET simTime == now - startTime
    IN IF buffer.duration # 0
       THEN LET maxDur == MaxDur(buffer)
                wrapped == Rem(simTime, maxDur + OneSecond)
            IN [ wallClock |-> simTime,
                 time |-> IF wrapped > maxDur THEN maxDur ELSE wrapped,
                 totalDuration |-> maxDur ]
       ELSE [ wallClock |-> simTime,
              time |-> Rem(simTime, FallbackWindow),
              totalDuration |-> DefaultDuration ]

\* the other parts of the editor take no step
ClockOnly ==
    UNCHANGED <<driverVars, imageVars, wrapVars, textVars, slideVars, uploadVars,
                editVars, retryVars>>

\* renderLoop, called by the effect and by every repaint callback
PreviewRender ==
    /\ pFrame' = RenderLoop(pBuffer, pNow, pStart)
    /\ UNCHANGED <<pBuffer, pNow, pStart>>
    /\ ClockOnly

\* time passes
ClockRuns ==
    /\ pNow < MaxClock
    /\ pNow' = pNow + 1
    /\ UNCHANGED <<pBuffer, pStart, pFrame>>
    /\ ClockOnly

\* the system clock is set back (a clock synchronisation, the user)
ClockSetBack ==
    /\ pNow > 0
    /\ pNow' = pNow - 1
    /\ UNCHANGED <<pBuffer, pStart, pFrame>>
    /\ ClockOnly

\* the preview effect has run const startTime = Date.now(); no frame is drawn yet
PreviewInit ==
    /\ DriverInit /\ ImageIdle /\ WrapIdle /\ TextIdle /\ SlideIdle /\ UploadIdle /\ EditIdle /\ RetryIdle
    /\ pBuffer \in [ duration : {0, 2 * PreviewDur}, playbackSpeed : {1, 2} ]
    /\ pNow \in 0..MaxLate
    /\ pStart = pNow
    /\ pFrame = <<>>

PreviewNext ==
    \/ PreviewRender
    \/ ClockRuns
    \/ ClockSetBack

PreviewSpec == PreviewInit /\ [][PreviewNext]_vars

\* C18: in preview mode with an audio buffer of effective duration
\* D = duration / playbackSpeed, the elapsed time passed to the compositor on
\* every tick is (wallClock mod (D + 1)) clamped to at most D, hence always within
\* [0, D], with totalDuration = D; without an audio buffer it is wallClock mod 20.
C18_PreviewElapsed ==
    pFrame # <<>> =>
        IF pBuffer.duration # 0
        THEN LET D == MaxDur(pBuffer)
             IN /\ pFrame.time = Min(Rem(pFrame.wallClock, D + OneSecond), D)
                /\ pFrame.time \in 0..D
                /\ pFrame.totalDuration = D
        ELSE pFrame.time = Rem(pFrame.wallClock, FallbackWindow)

(***************************************************************************)
(* The slideshow of drawFrame: which image and which pan/zoom variant a    *)
(* frame shows.  Times are in tenths of a second, seeds in hundredths.     *)
(***************************************************************************)
MaxSlot == 3
MaxImages == 2

\* const SLIDE_DURATION = 4, in tenths of a second
SLIDE_DURATION == 40

\* the number of pan/zoom variants: Math.floor(randAnim * 6)
Variants == 6

\* the factors of slideIndex * 123.45 and slideIndex * 678.90, in hundredths
ImgFactor == 12345
AnimFactor == 67890

\* x - Math.floor(x) for x = Math.sin(seed) * 10000, in millionths (rounded down),
\* for the seeds of the first slots; seed in hundredths
SineFraction(seed) ==
    CASE seed = 0 -> 0
      [] seed = 12345 -> 453646   [] seed = 67890 -> 545894
      [] seed = 24690 -> 682052   [] seed = 135780 -> 383723
      [] seed = 37035 -> 609008   [] seed = 203670 -> 274559
      [] seed = 49380 -> 71958    [] seed = 271560 -> 900717
      [] seed = 61725 -> 398598   [] seed = 339450 -> 582506
      [] seed = 74070 -> 287319   [] seed = 407340 -> 109265
      [] seed = 86415 -> 646474   [] seed = 475230 -> 315124

\* a generator that goes on from the seed the call before it left behind
StaleSeed(seed, left) == IF left = 0 THEN seed ELSE left - 100

\* the seed a call of seededRandom computes with: its argument; what the call
\* before it left in its own local (left) is gone with that call
CallSeed(seed, left) == seed

\* seededRandom(seed) called after a call that left (left): the value returned and
\* the local seed after seed++
SeededRandom(seed, left) ==
    [ value |-> SineFraction(CallSeed(seed, left)),
      seed |-> CallSeed(seed, left) + 100 ]

\* the slideshow part of drawFrame(ctx, currentTime, totalDuration) up to
\* const img = loadedImages[imgIdx]
Slideshow(currentTime, count, left) ==
    LET slideIndex == currentTime \div SLIDE_DURATION
        randImg == SeededRandom(slideIndex * ImgFactor, left)
        randAnim == SeededRandom(slideIndex * AnimFactor, randImg.seed)
    IN [ slot |-> slideIndex, count |-> count,
         imgIdx |-> (randImg.value * count) \div 1000000,
         animType |-> (randAnim.value * Variants) \div 1000000,
         seed |-> randAnim.seed ]

\* the frame times of the model: every half second of the first slots
SlideTimes == { 5 * k : k \in 0..(8 * (MaxSlot + 1) - 1) }

\* the other parts of the editor take no step
SlideOnly ==
    UNCHANGED <<driverVars, imageVars, wrapVars, textVars, clockVars, uploadVars,
                editVars, retryVars>>

\* drawFrame at some time, from the preview loop or from the capture loop
ComposeSlide ==
    /\ sImages > 0
    /\ \E t \in SlideTimes :
          LET frame == Slideshow(t, sImages, sSeed)
              pick == [ slot |-> frame.slot, count |-> frame.count,
                        imgIdx |-> frame.imgIdx, animType |-> frame.animType ]
          IN /\ sLast' = pick
             /\ sSeed' = frame.seed
             /\ \/ /\ sLast # <<>>
                   /\ sKept' = sLast
                   /\ sAgain' = FALSE
                \/ /\ UNCHANGED sKept
                   /\ sAgain' = IF sKept # <<>> /\ pick.slot # sKept.slot
                                THEN TRUE ELSE sAgain
    /\ UNCHANGED sImages
    /\ SlideOnly

\* setLoadedImages(imgs)
SetLoadedImages ==
    /\ \E n \in 0..MaxImages : n # sImages /\ sImages' = n
    /\ UNCHANGED <<sSeed, sLast, sKept, sAgain>>
    /\ SlideOnly

SlideInit ==
    /\ DriverInit /\ ImageIdle /\ WrapIdle /\ TextIdle /\ ClockIdle /\ UploadIdle /\ EditIdle /\ RetryIdle
    /\ sImages \in 0..MaxImages
    /\ sSeed = 0
    /\ sLast = <<>>
    /\ sKept = <<>>
    /\ sAgain = FALSE

SlideNext ==
    \/ ComposeSlide
    \/ SetLoadedImages

SlideSpec == SlideInit /\ [][SlideNext]_vars

\* C21: for a fixed slot index floor(elapsedTime / 4) the selected image index and
\* the pan/zoom variant are the same across repeated calls and across any
\* interleaving with other compose calls: both are functions of the slot index
\* and the image count only, no state is carried between calls.
C21_SlotDeterminesPick ==
    /\ (sKept # <<>> /\ sKept.slot = sLast.slot /\ sKept.count = sLast.count)
          => sKept = sLast
    /\ sLast # <<>> =>
          /\ sLast.imgIdx
                = (SineFraction(sLast.slot * ImgFactor) * sLast.count) \div 1000000
          /\ sLast.animType
                = (SineFraction(sLast.slot * AnimFactor) * Variants) \div 1000000
          /\ sLast.imgIdx \in 0..(sLast.count - 1)
          /\ sLast.animType \in 0..(Variants - 1)

\* C21's case: a slot composed again after frames of other slots
C21_Witness ==
    /\ sKept # <<>>
    /\ sAgain
    /\ sLast.slot = sKept.slot
    /\ sLast.count = sKept.count
    /\ sLast.slot > 0

\* every single glyph of the wrapped text fits the available width at the
\* returned font size
EveryGlyphFits(in, w) ==
    \A i \in 1..Len(ProcessedText(in)) :
        Measure(<<ProcessedText(in)[i]>>, w.fontSize) <= 10 * in.maxWidth

\* C22: whenever every single glyph fits the available width, no line returned by
\* getWrappedLines is wider than the available width: a word that alone exceeds
\* it is split character by character wherever it occurs in a paragraph, also
\* when it follows other words on the current line.
C22_NoLineTooWide ==
    (dPc = "drawn" /\ dOut.drawn /\ EveryGlyphFits(dIn, dOut.wrapped)) =>
        \A i \in 1..Len(dOut.wrapped.lines) :
            Measure(dOut.wrapped.lines[i], dOut.wrapped.fontSize) <= 10 * dIn.maxWidth

RECURSIVE BreakOrigins(_, _)
\* for every character of BreakSentences(s) the index (counted from 0) in the
\* source text of the character it stands for, s being the rest of the text from
\* index i; an inserted newline stands for the first whitespace it replaces
BreakOrigins(s, i) ==
    IF s = <<>> THEN <<>>
    ELSE IF Head(s) \in {".", "!", "?"} /\ Len(s) > 1 /\ IsSpace(s[2])
         THEN LET rest == SkipSpace(Tail(s))
              IN <<i, i + 1>> \o BreakOrigins(rest, i + Len(s) - Len(rest))
         ELSE <<i>> \o BreakOrigins(Tail(s), i + 1)

\* the same for processedText: trim() drops the leading and the trailing whitespace
Origins(in) ==
    IF ~in.isSecondary /\ in.animation = "SENTENCE"
    THEN LET broken == BreakSentences(in.text)
             lead == Len(broken) - Len(SkipSpace(broken))
         IN SubSeq(BreakOrigins(in.text, 0), lead + 1, lead + Len(Trim(broken)))
    ELSE [ i \in 1..Len(in.text) |-> i - 1 ]

\* the indices in the source text of the characters a line displays, for a line
\* whose offset addresses it in the wrapped text
Displayed(in, line, lineStart) ==
    { Origins(in)[k + 1] : k \in lineStart..(lineStart + Len(line) - 1) }

\* a Sentence frame of the first track
SentenceDrawn == PrimaryDrawn /\ dIn.animation = "SENTENCE"

\* C23: in Sentence mode, at every elapsed time, a visible wrapped line is drawn
\* entirely in the highlight color if and only if the characters it displays
\* overlap the active sentence, the sentence of the source text whose range
\* contains the current character index (checked for the lines whose offset
\* addresses them in the wrapped text).
C23_SentenceHighlight ==
    SentenceDrawn =>
        /\ Len(dOut.ops) = Len(dOut.visibleLines)
        /\ \A i \in 1..Len(dOut.visibleLines) :
              LET line == dOut.visibleLines[i]
                  lineStart == dOut.visibleIndices[i]
              IN /\ dOut.ops[i].text = line
                 /\ dOut.ops[i].color \in {"highlightColor", "textColor"}
                 /\ Substring(ProcessedText(dIn), lineStart, lineStart + Len(line)) = line
                       => ( dOut.ops[i].color = "highlightColor"
                            <=> \E c \in Displayed(dIn, line, lineStart) :
                                   c >= dOut.sentence.start /\ c < dOut.sentence.end )

\* a Subtitle frame of the first track
SubtitleDrawn == PrimaryDrawn /\ dIn.animation = "SUBTITLE"

\* the fillText calls of a frame for the visible line of row i (counted from 0)
RowOps(out, i) == LET OfRow(op) == op.row = i IN SelectSeq(out.ops, OfRow)

\* [s, e) lies in the text, holds no space or newline, cannot be extended on
\* either side, and the index (text.length - 1 at most) is in it or at its end
MaximalWord(text, charIndex, s, e) ==
    /\ 0 <= s /\ s <= e /\ e <= Len(text)
    /\ \A k \in s..(e - 1) : ~IsSpace(text[k + 1])
    /\ s = 0 \/ IsSpace(text[s])
    /\ e = Len(text) \/ IsSpace(text[e + 1])
    /\ s <= Min(charIndex, Len(text) - 1)
    /\ Min(charIndex, Len(text) - 1) <= e

\* C24: in Subtitle mode the active word range [s, e) satisfies
\* 0 <= s <= e <= text.length and contains no space or newline, it is the maximal
\* such run around the current character index, and on each visible line exactly
\* the characters in the intersection of [s, e) with the line's range
\* [lineStart, lineStart + line.length) are drawn in the highlight color (over
\* the line in the base color), all others in the base color.
C24_ActiveWord ==
    SubtitleDrawn =>
        /\ MaximalWord(dIn.text, dOut.charIndex, dOut.word.start, dOut.word.end)
        /\ \A i \in 1..Len(dOut.visibleLines) :
              LET line == dOut.visibleLines[i]
                  lineStart == dOut.visibleIndices[i]
                  lo == Max(lineStart, dOut.word.start)
                  hi == Min(lineStart + Len(line), dOut.word.end)
                  base == FillText(i - 1, line, "textColor", 0, -1, -1)
              IN IF lo < hi
                 THEN RowOps(dOut, i - 1)
                        = << base,
                             FillText(i - 1, SubSeq(line, lo - lineStart + 1, hi - lineStart),
                                      "highlightColor",
                                      Measure(SubSeq(line, 1, lo - lineStart),
                                              dOut.wrapped.fontSize),
                                      -1, -1) >>
                 ELSE RowOps(dOut, i - 1) = <<base>>
        /\ \A k \in 1..Len(dOut.ops) : dOut.ops[k].row \in 0..(Len(dOut.visibleLines) - 1)

\* C24's case: a Subtitle frame whose active word is the second word of its line
C24_Witness ==
    /\ SubtitleDrawn
    /\ dOut.word.start > 0
    /\ dOut.word.end > dOut.word.start
    /\ \E k \in 1..Len(dOut.ops) :
          /\ dOut.ops[k].color = "highlightColor"
          /\ dOut.ops[k].dx > 0
          /\ dOut.ops[k].text = Substring(dIn.text, dOut.word.start, dOut.word.end)

\* a Slide-up frame of the first track
SlideUpDrawn(in, out, pc) ==
    pc = "drawn" /\ out.drawn /\ ~in.isSecondary /\ in.animation = "SLIDE_UP"

\* scrollableHeight = max(0, lineCount x lineHeight - availableHeight), in tenths
\* of a pixel
ScrollableHeight(in, out) ==
    Max(0, Len(out.wrapped.lines) * out.wrapped.lineHeight - 10 * in.maxHeight)

\* all wrapped lines are drawn, and the offset (in units of 1 / (20 x
\* totalDuration) pixel) is -(scrollableHeight x progress), within
\* [-scrollableHeight, 0], and 0 when the text fits
SlideUpOffset(in, out, pc) ==
    SlideUpDrawn(in, out, pc) =>
        /\ out.pages = <<>>
        /\ out.visibleLines = out.wrapped.lines
        /\ out.visibleIndices = out.wrapped.lineStartIndices
        /\ Len(out.ops) = Len(out.wrapped.lines)
        /\ \A i \in 1..Len(out.ops) :
              out.ops[i].text = out.wrapped.lines[i] /\ out.ops[i].row = i - 1
        /\ out.drawY = 0 - 2 * ScrollableHeight(in, out) * ClampedTime(in)
        /\ out.drawY <= 0
        /\ out.drawY >= 0 - 2 * ScrollableHeight(in, out) * in.totalDuration
        /\ Len(out.wrapped.lines) * out.wrapped.lineHeight <= 10 * in.maxHeight
              => out.drawY = 0

\* C25: in Slide-up mode pagination is bypassed (all wrapped lines are drawn) and
\* the vertical draw offset relative to the padded box top is
\* -(scrollableHeight x progress), with scrollableHeight =
\* max(0, lineCount x lineHeight - availableHeight) and progress =
\* clamp(elapsedTime / totalDuration, 0, 1); the offset stays within
\* [-scrollableHeight, 0], never increases with elapsed time, and is 0 whenever
\* the wrapped text fits the available height.
C25_SlideUpOffset ==
    [][ /\ SlideUpOffset(dIn, dOut, dPc)
        /\ SlideUpOffset(dIn', dOut', dPc')
        /\ ( /\ SlideUpDrawn(dIn, dOut, dPc)
             /\ SlideUpDrawn(dIn', dOut', dPc')
             /\ dIn.currentTime <= dIn'.currentTime )
           => dOut'.drawY <= dOut.drawY
      ]_vars

\* C25's case: a Slide-up frame, part of the way through the duration, of a text
\* that does not fit the box: all its lines are drawn, scrolled up
C25_Witness ==
    /\ SlideUpDrawn(dIn, dOut, dPc)
    /\ dIn.currentTime > 0
    /\ dIn.currentTime < dIn.totalDuration
    /\ Len(dOut.ops) > LinesPerPage
    /\ dOut.drawY < 0

\* a frame of the first track that drew, as a predicate of a frame
PrimaryFrame(in, out, pc) == pc = "drawn" /\ out.drawn /\ ~in.isSecondary

\* C26: for a fixed primary text and a total duration > 0 the character index
\* computed by drawTextBlock is within [0, text.length] and never decreases as
\* elapsed time grows.
C26_IndexMonotone ==
    [][ /\ PrimaryFrame(dIn, dOut, dPc) => dOut.charIndex \in 0..Len(dIn.text)
        /\ PrimaryFrame(dIn', dOut', dPc') => dOut'.charIndex \in 0..Len(dIn'.text)
        /\ ( /\ PrimaryFrame(dIn, dOut, dPc)
             /\ PrimaryFrame(dIn', dOut', dPc')
             /\ dIn.currentTime <= dIn'.currentTime )
           => dOut.charIndex <= dOut'.charIndex
      ]_vars

\* C26's case: a later frame of the first track with the index inside the text,
\* past a pause
C26_Witness ==
    /\ PrimaryFrame(dIn, dOut, dPc)
    /\ dIn.currentTime > 0
    /\ dIn.currentTime < dIn.totalDuration
    /\ dOut.charIndex > 1
    /\ dOut.charIndex < Len(dIn.text)
    /\ dIn.text[1] = "."

\* C27: every period in which isRecording is true eventually ends: under fair
\* progress of the audio clock, the timers and the repaint callbacks, either a
\* capture completes (onVideoCreated fires and isRecording returns to false) or a
\* failure resets isRecording to false.
C27_RecordingEnds == isRecording ~> ~isRecording

(***************************************************************************)
(* Uploads of background images, by the number of images: the file reads   *)
(* of an upload are in flight until its Promise.all resolves.              *)
(***************************************************************************)
MaxReads == 2

\* the numbers of files a file dialog returns in the model
PickSizes == {1, ImageLimit \div 2, ImageLimit}

\* const remainingSlots = 20 - currentCount
RemainingSlots(currentCount) == ImageLimit - currentCount

\* files.slice(0, remainingSlots).length
Selected(files, remainingSlots) == IF files < remainingSlots THEN files ELSE remainingSlots

\* the other parts of the editor take no step
UploadOnly ==
    UNCHANGED <<driverVars, imageVars, wrapVars, textVars, clockVars, slideVars,
                editVars, retryVars>>

\* handleImageUpload up to reader.readAsDataURL(file) of every selected file
HandleImageUpload ==
    /\ Len(uReads) < MaxReads
    /\ RemainingSlots(uCount) > 0
    /\ \E files \in PickSizes :
          uReads' = Append(uReads, Selected(files, RemainingSlots(uCount)))
    /\ UNCHANGED uCount
    /\ UploadOnly

\* the Promise.all of an upload resolves:
\* setVideoState(prev => ({ ...prev, images: [...prev.images, ...newImages] }))
ReadsDone ==
    /\ \E k \in 1..Len(uReads) :
          /\ uCount' = uCount + uReads[k]
          /\ uReads' = SubSeq(uReads, 1, k - 1) \o SubSeq(uReads, k + 1, Len(uReads))
    /\ UploadOnly

\* the clear button: setVideoState(p => ({ ...p, images: [] }))
ClearUploaded ==
    /\ uCount > 0
    /\ uCount' = 0
    /\ UNCHANGED uReads
    /\ UploadOnly

UploadInit ==
    /\ DriverInit /\ ImageIdle /\ WrapIdle /\ TextIdle /\ ClockIdle /\ SlideIdle
    /\ UploadIdle /\ EditIdle /\ RetryIdle

UploadNext ==
    \/ HandleImageUpload
    \/ ReadsDone
    \/ ClearUploaded

UploadSpec == UploadInit /\ [][UploadNext]_vars

\* C28: the number of background images held in videoState.images never exceeds
\* 20 after any sequence of uploads and clears, two uploads whose file reads are
\* in flight at the same time and complete in any order included.
C28_AtMostTwenty == uCount <= ImageLimit

(***************************************************************************)
(* The script text, by its length: edits and translations.                 *)
(***************************************************************************)
EditSpan == 3

\* export const MAX_CHARS = 50000
MAX_CHARS == 50000

\* the lengths of the texts of the model: short ones and ones around the limit
Lengths == 0..EditSpan \cup (MAX_CHARS - EditSpan)..(MAX_CHARS + EditSpan)

\* the texts of the model: an empty text is blank, a text of spaces is
ScriptTexts == { t \in [length : Lengths, blank : BOOLEAN] : t.length = 0 => t.blank }

\* the driver, the images and the renderer take no step
EditOnly ==
    UNCHANGED <<driverVars, imageVars, wrapVars, textVars, clockVars, slideVars,
                uploadVars, retryVars>>

\* handleTextChange: the textarea's new value
HandleTextChange ==
    /\ \E value \in ScriptTexts :
          eText' = IF value.length <= MAX_CHARS THEN value ELSE eText
    /\ UNCHANGED eSent
    /\ EditOnly

\* handleTranslate up to await translateText(videoState.text, ...); the button is
\* disabled while isTranslating
HandleTranslate ==
    /\ eSent = <<>>
    /\ ~eText.blank
    /\ eSent' = eText
    /\ UNCHANGED eText
    /\ EditOnly

\* translateText returns response.text?.trim() || text, and handleTranslate stores it
Translated ==
    /\ eSent # <<>>
    /\ \E reply \in Lengths :
          eText' = IF reply # 0 THEN [length |-> reply, blank |-> FALSE] ELSE eSent
    /\ eSent' = <<>>
    /\ EditOnly

\* translateText throws: alert("Translation failed.")
TranslationFails ==
    /\ eSent # <<>>
    /\ eSent' = <<>>
    /\ UNCHANGED eText
    /\ EditOnly

EditNext ==
    \/ HandleTextChange
    \/ HandleTranslate
    \/ Translated
    \/ TranslationFails

EditSpec == Init /\ [][EditNext]_vars

\* C29: the script text held in videoState.text never exceeds MAX_CHARS characters
\* after any sequence of edits and translations: an edit that would exceed the
\* limit leaves the text unchanged, and no other operation stores a longer text.
C29_AtMostMaxChars == eText.length <= MAX_CHARS

(***************************************************************************)
(* retryOperation: the retry loop around a call of the speech service.     *)
(* A JavaScript value is a record of its type and its content; the content *)
(* of a string is the sequence of its words, that of a number its digits.  *)
(***************************************************************************)
MaxRetries == 3

\* baseDelay: number = 4000
DefaultBaseDelay == 4000

BaseDelays == {1, DefaultBaseDelay}

Str(words) == [t |-> "string", v |-> words]

Num(digits) == [t |-> "number", v |-> <<digits>>]

\* the operands that || passes over
Falsy(x) ==
    \/ x = Undefined
    \/ x = Str(<<>>)
    \/ x = Num("0")

\* a || b
Or(a, b) == IF Falsy(a) THEN b ELSE a

\* msg.includes(word)
Includes(msg, word) == \E k \in 1..Len(msg.v) : msg.v[k] = word

NoBody == [message |-> Undefined, code |-> Undefined, status |-> Undefined]

\* an error that carries its fields itself
Plain(message, code, status) ==
    [nested |-> FALSE, error |-> NoBody,
     message |-> message, code |-> code, status |-> status]

\* an error that carries them in its error field, as the service's responses do
Nested(message, code, status) ==
    [nested |-> TRUE,
     error |-> [message |-> message, code |-> code, status |-> status],
     message |-> Undefined, code |-> Undefined, status |-> Undefined]

\* the errors an attempt of the model is rejected with
Errors ==
    { Plain(Str(<<"Failed", "to", "fetch">>), Undefined, Undefined),
      Plain(Str(<<"HTTP", "429">>), Undefined, Undefined),
      Plain(Str(<<"Quota", "exceeded">>), Undefined, Undefined),
      Plain(Str(<<"RESOURCE_EXHAUSTED">>), Undefined, Undefined),
      Plain(Undefined, Num("429"), Undefined),
      Plain(Undefined, Undefined, Num("429")),
      Plain(Undefined, Undefined, Str(<<"RESOURCE_EXHAUSTED">>)),
      Plain(Str(<<"Internal", "error">>), Num("500"), Num("500")),
      Nested(Str(<<"Too", "many", "requests">>), Num("429"), Str(<<"RESOURCE_EXHAUSTED">>)),
      Nested(Str(<<"Internal", "error">>), Num("500"), Str(<<"INTERNAL">>)) }

\* the results of the operation
Results == {Str(<<"audio">>), Str(<<"translated">>)}

\* errBody = error?.error || error, by its message, code and status
ErrBody(error) ==
    IF error.nested
    THEN error.error
    ELSE [message |-> error.message, code |-> error.code, status |-> error.status]

IsRateLimit(error) ==
    LET errBody == ErrBody(error)
        msg == Or(Or(errBody.message, error.message), Str(<<>>))
        code == Or(Or(errBody.code, error.status), error.code)
        status == Or(errBody.status, error.status)
    IN  \/ Includes(msg, "429")
        \/ Includes(msg, "Quota")
        \/ Includes(msg, "RESOURCE_EXHAUSTED")
        \/ code = Num("429")
        \/ status = Num("429")
        \/ status = Str(<<"RESOURCE_EXHAUSTED">>)

RECURSIVE Pow2(_)
\* Math.pow(2, i)
Pow2(i) == IF i = 0 THEN 1 ELSE 2 * Pow2(i - 1)

SameDelay(baseDelay, i) == baseDelay

\* const delay = baseDelay * Math.pow(2, i)
Delay(baseDelay, i) == baseDelay * Pow2(i)

RetryOnly ==
    UNCHANGED <<driverVars, imageVars, wrapVars, textVars, clockVars, slideVars,
                uploadVars, editVars>>

\* the call, up to its first await: the loop is entered and the operation invoked,
\* or with no iteration to run lastError is thrown
RetryOperation ==
    /\ rPc = "idle"
    /\ \E maxRetries \in 0..MaxRetries, baseDelay \in BaseDelays :
          /\ rMax' = maxRetries
          /\ rBase' = baseDelay
          /\ IF 0 < maxRetries
             THEN rPc' = "operation" /\ rCalls' = 1
             ELSE rPc' = "threw" /\ rCalls' = 0
    /\ rOut' = Undefined
    /\ UNCHANGED <<rI, rErrors, rWaits>>
    /\ RetryOnly

\* return await operation(): the operation's promise is fulfilled
Fulfilled ==
    /\ rPc = "operation"
    /\ \E result \in Results : rOut' = result
    /\ rPc' = "returned"
    /\ UNCHANGED <<rMax, rBase, rI, rErrors, rWaits, rCalls>>
    /\ RetryOnly

\* the catch block: the operation's promise is rejected
Rejected ==
    /\ rPc = "operation"
    /\ \E error \in Errors :
          /\ rErrors' = Append(rErrors, error)
          /\ IF IsRateLimit(error) /\ rI < rMax - 1
             THEN /\ rWaits' = Append(rWaits, Delay(rBase, rI))
                  /\ rPc' = "timer"
                  /\ UNCHANGED rOut
             ELSE /\ rPc' = "threw"
                  /\ rOut' = error
                  /\ UNCHANGED rWaits
    /\ UNCHANGED <<rMax, rBase, rI, rCalls>>
    /\ RetryOnly

\* the timer fires: continue, i++, and the next iteration invokes the operation, or
\* after the loop lastError is thrown
DelayElapsed ==
    /\ rPc = "timer"
    /\ rI' = rI + 1
    /\ IF rI + 1 < rMax
       THEN rPc' = "operation" /\ rCalls' = rCalls + 1 /\ UNCHANGED rOut
       ELSE rPc' = "threw" /\ rOut' = rErrors[Len(rErrors)] /\ UNCHANGED rCalls
    /\ UNCHANGED <<rMax, rBase, rErrors, rWaits>>
    /\ RetryOnly

RetryNext ==
    \/ RetryOperation
    \/ Fulfilled
    \/ Rejected
    \/ DelayElapsed

RetrySpec == Init /\ [][RetryNext]_vars

\* every attempt so far was rejected with a rate-limit error
AllRateLimited == \A k \in 1..Len(rErrors) : IsRateLimit(rErrors[k])

\* C30: retryOperation invokes the operation at most maxRetries times; it returns
\* the first successful result without further attempts; it rethrows an error that
\* is not a rate limit at once, without a retry; attempt i+1 is made only after a
\* wait of baseDelay x 2^i that follows a rate-limit error of attempt i; and when
\* every attempt is rate-limited it throws the last error after exactly maxRetries
\* attempts.
C30_RetryOperation ==
    /\ rCalls <= rMax
    /\ rPc = "returned" =>
          /\ rOut \in Results
          /\ rCalls = Len(rErrors) + 1
          /\ AllRateLimited
    /\ rPc = "threw" /\ ~AllRateLimited =>
          /\ rCalls = Len(rErrors)
          /\ rOut = rErrors[Len(rErrors)]
          /\ \A k \in 1..(Len(rErrors) - 1) : IsRateLimit(rErrors[k])
          /\ Len(rWaits) = rCalls - 1
    /\ rCalls <= Len(rWaits) + 1
    /\ Len(rWaits) <= Len(rErrors)
    /\ \A k \in 1..Len(rWaits) :
          /\ rWaits[k] = rBase * (2 ^ (k - 1))
          /\ IsRateLimit(rErrors[k])
    /\ rPc = "threw" /\ AllRateLimited =>
          /\ rCalls = rMax
          /\ Len(rErrors) = rMax
          /\ rOut = (IF rMax = 0 THEN Undefined ELSE rErrors[Len(rErrors)])

\* three rate-limited attempts with two waits between them, and the last error thrown
C30_Witness ==
    /\ rPc = "threw"
    /\ AllRateLimited
    /\ rCalls = MaxRetries
    /\ Len(rWaits) = MaxRetries - 1
    /\ rWaits[Len(rWaits)] > rWaits[1]

====
